---- MODULE Spec2Model ----
(***************************************************************************)
(* Work dispatch of bosminer: the job channel (JobSender), the work        *)
(* generator (WorkGenerator) and the version rolling of workhub.rs.        *)
(*                                                                         *)
(* A job is an Arc<dyn BitcoinJob>; Arc identity is the job's number in    *)
(* Jobs, and two jobs may carry the same version.  The generator runs one  *)
(* generate() call at a time; JobSender is Clone, so several senders act   *)
(* concurrently with it.  Every step is one critical section of the        *)
(* Mutex<Option<Arc<..>>> (the slot), one operation of the mpsc event      *)
(* queue, or the generator's private computation after its last access    *)
(* to shared state.                                                        *)
(*                                                                         *)
(* The second part is the Block Erupter adapter of device.rs: the          *)
(* iterator BlockErupterSolver::next over a device and a work generator.  *)
(* The adapter runs on one thread; the device, the clock and the work     *)
(* generator are its environment.  Spec runs the job channel and the      *)
(* generator of workhub.rs, SolverSpec the adapter, TimeoutSpec the        *)
(* adapter's timeout computation over every elapsed time.                 *)
(*                                                                         *)
(* Further parts: BlockErupter::init (DevSpec), the test engines of        *)
(* test_utils.rs (EngineSpec), the engine channel between the orchestrator *)
(* of block_mining.rs and a backend (ChanSpec, ChanFairSpec), the solution *)
(* channel of workhub.rs (SolSpec, SolFairSpec) and the share counter of   *)
(* stats.rs (StatSpec); one job rolled to the end of the version space    *)
(* (RollSpec), the adapter over the fixture engine and a device that      *)
(* solves every work (FixtureSpec, FixtureFairSpec), several consumers of *)
(* one test engine (ShareSpec) and the Registry of block_mining.rs        *)
(* (RegSpec).                                                             *)
(***************************************************************************)
EXTENDS Integers, Sequences, FiniteSets, TLC

(* ----------------------------- bounds --------------------------------- *)

\* Number of distinct job objects (Arc identities) the upstream owns.
NumJobs == 2

\* Number of JobSender clones.
NumSenders == 2

\* generate() calls explored per behaviour.
MaxCalls == 5

\* JobSender::send calls explored per behaviour (all senders together).
MaxSends == 3

\* Largest value of the roll counter's type.  next_version is a u16; the
\* model explores a narrower counter so that exhaustion of the address
\* space is reached within MaxCalls calls.
U16_MAX == 15

\* Assignments the adapter's work generator yields per behaviour.
MaxWorks == 3

\* Device reads the adapter starts per behaviour.
MaxReads == 3

\* BlockErupterSolver::next calls explored per behaviour.
MaxNext == 3

\* Distinct nonces the device reports.
NumNonces == 2

\* Largest value of solution_id's type.  solution_id is a u32; the model
\* explores a narrower counter so that its overflow is reached within
\* MaxReads reads.
U32_MAX == 2

\* Work engines explored per behaviour.
MaxEngines == 3

\* Length of TEST_BLOCKS, the fixture blocks a TestWorkEngine runs over.
\* The blocks are defined outside the sources at hand; the model explores
\* every length up to this one.
NumBlocks == 3

\* Calls made directly on one engine per behaviour.
MaxEngineCalls == 5

\* next_work() calls the backend makes per behaviour.
MaxGenerate == 4

\* get_engine calls the backend repeats without asking for work.
MaxRegets == 1

\* Consumers that call one shared engine.
NumConsumers == 2

\* Largest midstate index of a problem or a solution.
MaxMidstateIdx == 1

\* Calls made on one registry.
MaxRegOps == 5

\* Backends that send solutions.
NumProducers == 2

\* Solutions each producer sends per behaviour.
MaxSolutions == 2

\* Largest value of the share counter's type.  SUBMITTED_SHARE_COUNTER is
\* an AtomicU64; the model explores a narrower counter so that its wrap is
\* reached within MaxAccounts calls.
U64_MAX == 7

\* Largest difficulty a target has.
MaxDifficulty == 3

\* account_solution calls explored per behaviour.
MaxAccounts == 4

\* Swaps of the hashrate reporter explored per behaviour.
MaxReports == 3

\* icarus::FULL_NONCE_TIME_MS, in whole milliseconds.  The constant is
\* defined outside the sources at hand; the model explores this value.
FULL_NONCE_TIME_MS == 400

(* ------------------------- program constants -------------------------- *)

\* const MASK: u32 = 0x1fffe000
MASK == 536862720

\* const SHIFT: u32 = 13
SHIFT == 13

\* midstates: 1 in WorkGenerator::new
NEW_MIDSTATES == 1

\* DEFAULT_MIDSTATE_COUNT of the S9 configuration
DEFAULT_MIDSTATE_COUNT == 4

\* mpsc::channel(1) in WorkHub::new
EVENT_BUFFER == 1

\* const WAIT_TIMEOUT_MS: u64 = 100 (WAIT_TIMEOUT is this many ms)
WAIT_TIMEOUT_MS == 100

\* const READ_REDUCE_MS: f64 = WAIT_TIMEOUT_MS as f64 * 1.5
READ_REDUCE_MS == (WAIT_TIMEOUT_MS * 3) \div 2

\* const MAX_READ_TIME = from_millis((FULL_NONCE_TIME_MS - READ_REDUCE_MS)
\* as u64)
MAX_READ_TIME == FULL_NONCE_TIME_MS - READ_REDUCE_MS

\* size_of::<u32>(), the length of a nonce read
NONCE_SIZE == 4

\* Option::None for the slot and for the generator's current job.
None == 0

Jobs == 1 .. NumJobs

Senders == 1 .. NumSenders

\* BitcoinJob::version() of the job objects: 0x20000000, 0x3fffffff (every
\* bit below bit 30 set, so masking shows), and 0x20000000 again (another
\* object with an equal version).
JobVersionTable == <<536870912, 1073741823, 536870912>>

\* BitcoinJob::version()
version(j) == JobVersionTable[((j - 1) % Len(JobVersionTable)) + 1]

(* --------------------------- u32 arithmetic --------------------------- *)

RECURSIVE BitAndNot(_, _)
\* a & !m on u32 values, bit by bit (!m itself exceeds TLC's integers).
BitAndNot(a, m) ==
    IF a = 0 THEN 0
    ELSE (a % 2) * (1 - (m % 2)) + 2 * BitAndNot(a \div 2, m \div 2)

RECURSIVE BitOr(_, _)
\* a | b on u32 values, bit by bit.
BitOr(a, b) ==
    IF a = 0 THEN b
    ELSE IF b = 0 THEN a
    ELSE (IF (a % 2) = 1 \/ (b % 2) = 1 THEN 1 ELSE 0)
         + 2 * BitOr(a \div 2, b \div 2)

RECURSIVE Pow2(_)
Pow2(n) == IF n = 0 THEN 1 ELSE 2 * Pow2(n - 1)

\* (version as u32) << SHIFT; a u16 shifted by 13 stays below 2^29, so the
\* u32 never wraps.
Shl(x, n) == x * Pow2(n)

(* ------------------------------- state -------------------------------- *)

VARIABLES
    channel,       \* JobChannel: the slot, None or a job
    events,        \* NewJobEvents queued in the mpsc channel
    sender_pc,     \* per JobSender: "idle", "notify", "panicked", "dropped"
    current,       \* JobQueue.current
    midstates,     \* WorkGenerator.midstates
    next_version,  \* WorkGenerator.next_version
    base_version,  \* WorkGenerator.base_version
    pc,            \* the generator's position in generate()
    new_job,       \* get_job's local new_job
    job,           \* the job get_job returned
    stream_end,    \* event.next() returned None in the running call
    result,        \* what the last finished generate() returned
    emitted,       \* history: the works generate() returned, in order
    calls,         \* history: generate() calls started
    sends,         \* history: send() calls started
    empty_sends,   \* history: send() calls that replaced an empty slot
    events_sent,   \* history: events try_send put in the queue
    cleared,       \* history: the slot was cleared and not written since
    spc,           \* the adapter's position in next()
    curr_work,     \* BlockErupterSolver.curr_work
    prev_work,     \* next()'s local prev_work
    next_solution, \* BlockErupterSolver.next_solution
    solution_id,   \* BlockErupterSolver.solution_id
    stop_reason,   \* BlockErupterSolver.stop_reason
    work_start,    \* BlockErupterSolver.work_start
    pending_work,  \* the work generate() returned, not yet sent
    read_timeout,  \* the timeout of the device read in progress
    clock,         \* SystemTime::now()
    produced,      \* works the adapter's generator has returned
    gen_ended,     \* the adapter's generator has returned None
    returned,      \* history: what next() returned, in order
    written,       \* history: the works written to the device, in order
    reads,         \* history: device reads started
    next_calls,    \* history: next() calls started
    stop_result,   \* what get_stop_reason returned
    init_pc,       \* BlockErupter::init's position
    init_calls,    \* history: the device calls init has made, in order
    init_result,   \* what init returned
    supports_detach, \* context.supports_detach_kernel_driver()
    driver_active, \* what kernel_driver_active reports when it succeeds
    failing,       \* the device calls that fail when made
    engines,       \* the work engines, by identity: their inner state
    eng_log,       \* history: the calls made on engines and their results
    slot,          \* engine channel: the engine broadcast last
    fresh,         \* engine channel: a broadcast the receiver has not seen
    held,          \* the engine get_engine returned last
    bpc,           \* the backend's position in its generate loop
    opc,           \* the orchestrator's position
    reschedule,    \* reschedule channel: notifications not yet received
    notified,      \* history: every notification sent, in order
    broadcasts,    \* history: engines broadcast so far
    got,           \* history: what get_engine returned, in order
    regets,        \* history: get_engine calls repeated without work
    sol_queue,     \* solution channel: solutions sent and not yet received
    sol_senders,   \* solution channel: the senders not yet dropped
    sol_sent,      \* history: solutions each producer has sent
    sol_received,  \* history: solutions receive() returned, in order
    sol_done,      \* receive() returned None and the collection ended
    share_counter, \* SUBMITTED_SHARE_COUNTER
    total_shares,  \* the reporter's total_shares
    accounted,     \* history: the difficulties accounted, in order
    wraps,         \* history: fetch_add calls that wrapped the counter
    reports,       \* history: swaps the reporter made
    eng_lock,      \* the shared engine's mutex: its holder, or 0
    cpc,           \* per consumer of the shared engine: "idle", "locked"
    seen,          \* per consumer: the inner engine its guard refers to
    reg_map,       \* Registry::map: SolutionKey -> SolutionState
    reg_last,      \* history: the last registry call and what it returned
    reg_ops,       \* history: number of registry calls made
    reg_received   \* history: keys whose registered problem got a solution

hub_vars == <<channel, events, sender_pc, current, midstates, next_version,
              base_version, pc, new_job, job, stream_end, result, emitted,
              calls, sends, empty_sends, events_sent, cleared>>

gen_vars == <<current, midstates, next_version, base_version, pc, new_job,
              job, stream_end, result, emitted, calls>>

solver_vars == <<spc, curr_work, prev_work, next_solution, solution_id,
                 stop_reason, work_start, pending_work, read_timeout, clock,
                 produced, gen_ended, returned, written, reads, next_calls,
                 stop_result>>

dev_vars == <<init_pc, init_calls, init_result, supports_detach,
              driver_active, failing>>

engine_vars == <<engines, eng_log>>

chan_vars == <<slot, fresh, held, bpc, opc, reschedule, notified,
               broadcasts, got, regets>>

sol_vars == <<sol_queue, sol_senders, sol_sent, sol_received, sol_done>>

stat_vars == <<share_counter, total_shares, accounted, wraps, reports>>

share_vars == <<eng_lock, cpc, seen>>

reg_vars == <<reg_map, reg_last, reg_ops, reg_received>>

\* The variables of the components beside the hub and the adapter.
ext_vars ==
    <<dev_vars, engine_vars, chan_vars, sol_vars, stat_vars, share_vars,
      reg_vars>>

\* What BlockErupter::init leaves alone.
not_dev_vars ==
    <<hub_vars, solver_vars, engine_vars, chan_vars, sol_vars, stat_vars,
      share_vars, reg_vars>>

\* What a call on an engine leaves alone.
not_engine_vars ==
    <<hub_vars, solver_vars, dev_vars, chan_vars, sol_vars, stat_vars,
      share_vars, reg_vars>>

\* What the engine channel's users leave alone, engines apart.
not_chan_vars ==
    <<hub_vars, solver_vars, dev_vars, sol_vars, stat_vars, share_vars,
      reg_vars>>

\* What the solution channel's users leave alone.
not_sol_vars ==
    <<hub_vars, solver_vars, dev_vars, engine_vars, chan_vars, stat_vars,
      share_vars, reg_vars>>

\* What the share accounting leaves alone.
not_stat_vars ==
    <<hub_vars, solver_vars, dev_vars, engine_vars, chan_vars, sol_vars,
      share_vars, reg_vars>>

\* What the consumers of a shared engine leave alone, engines apart.
not_share_vars ==
    <<hub_vars, solver_vars, dev_vars, chan_vars, sol_vars, stat_vars,
      reg_vars>>

\* What the registry leaves alone.
not_reg_vars ==
    <<hub_vars, solver_vars, dev_vars, engine_vars, chan_vars, sol_vars,
      stat_vars, share_vars>>

vars == <<hub_vars, solver_vars, ext_vars>>

\* No Assignment, no (Assignment, solution_id) pair, no UniqueSolution.
NoWork == 0

NoPrev == [work |-> NoWork, solution_id |-> 0]

NoSolution == [work |-> NoWork, nonce |-> 0, timestamp |-> 0,
               solution_id |-> 0, read |-> 0]

\* BlockErupterSolver::new; the clock stands at the epoch.
SolverInit ==
    /\ spc = "idle"
    /\ curr_work = NoWork
    /\ prev_work = NoPrev
    /\ next_solution = NoSolution
    /\ solution_id = 0
    /\ stop_reason = "Ok"
    /\ work_start = 0
    /\ pending_work = NoWork
    /\ read_timeout = 0
    /\ clock = 0
    /\ produced = 0
    /\ gen_ended = FALSE
    /\ returned = <<>>
    /\ written = <<>>
    /\ reads = <<>>
    /\ next_calls = 0
    /\ stop_result = "-"

\* WorkHub::new, WorkGenerator::new and JobSender::new.
HubInit ==
    /\ channel = None
    /\ events = 0
    /\ sender_pc = [s \in Senders |-> "idle"]
    /\ current = None
    /\ midstates \in {NEW_MIDSTATES, DEFAULT_MIDSTATE_COUNT}
    /\ next_version = 0
    /\ base_version = 0
    /\ pc = "idle"
    /\ new_job = FALSE
    /\ job = None
    /\ stream_end = FALSE
    /\ result = "-"
    /\ emitted = <<>>
    /\ calls = 0
    /\ sends = 0
    /\ empty_sends = 0
    /\ events_sent = 0
    /\ cleared = FALSE

\* A hub with its generator and senders, and an adapter, just built.
\* The calls BlockErupter::init makes on the device.
InitCalls == {"reset", "kernel_driver_active", "detach_kernel_driver",
              "set_active_configuration", "enable UART", "set data control",
              "set baud rate"}

\* A device found and not yet initialised; how the device and libusb will
\* answer is fixed from the start.
DevInit ==
    /\ init_pc = "reset"
    /\ init_calls = <<>>
    /\ init_result = "-"
    /\ supports_detach \in BOOLEAN
    /\ driver_active \in BOOLEAN
    /\ failing \in SUBSET InitCalls

\* The identities of the work engines.
Engines == 1 .. MaxEngines

\* OneWorkEngine::new(work)
OneWorkEngine(w) ==
    [kind |-> "one", work |-> w, next_test_block |-> 0,
     test_block_iter |-> 0, blocks |-> 0]

\* TestWorkEngine::new() over n test blocks: the iterator has yielded the
\* first block, if there is one, into next_test_block.
TestWorkEngine(n) ==
    [kind |-> "test", work |-> NoWork,
     next_test_block |-> IF n > 0 THEN 1 ELSE 0,
     test_block_iter |-> IF n > 0 THEN 1 ELSE 0, blocks |-> n]

\* The engines one can build over at most NumBlocks test blocks.
NewEngines ==
    {OneWorkEngine(w) : w \in 1 .. NumBlocks}
        \cup {TestWorkEngine(n) : n \in 0 .. NumBlocks}

\* Engines just built, none used yet.
EngineInit ==
    /\ engines \in [Engines -> NewEngines]
    /\ eng_log = <<>>

\* A device that answers every call.
DevIdle ==
    /\ DevInit
    /\ supports_detach
    /\ driver_active
    /\ failing = {}

\* Engines over the first test block only.
EngineIdle ==
    /\ engines = [e \in Engines |-> OneWorkEngine(1)]
    /\ eng_log = <<>>

\* No engine.
NoEngine == 0

\* A bug that awaits a notification before anything was broadcast.
first_step_awaits == "await"

\* test_block_mining broadcasts one engine before its loop.
first_step == "broadcast"

\* work::engine_channel(Some(reschedule_sender)) with a backend and an
\* orchestrator about to start.
ChanInit ==
    /\ slot = NoEngine
    /\ fresh = FALSE
    /\ held = NoEngine
    /\ bpc = "get"
    /\ opc = first_step
    /\ reschedule = <<>>
    /\ notified = <<>>
    /\ broadcasts = 0
    /\ got = <<>>
    /\ regets = 0

\* The backends that hold a clone of the solution sender.
Producers == 1 .. NumProducers

\* mpsc::unbounded() of the solution queue, a sender with every producer.
SolInit ==
    /\ sol_queue = <<>>
    /\ sol_senders = Producers
    /\ sol_sent = [p \in Producers |-> 0]
    /\ sol_received = <<>>
    /\ sol_done = FALSE

\* static SUBMITTED_SHARE_COUNTER: AtomicU64 = AtomicU64::new(0) and
\* let mut total_shares: u128 = 0
StatInit ==
    /\ share_counter = 0
    /\ total_shares = 0
    /\ accounted = <<>>
    /\ wraps = 0
    /\ reports = 0

\* The consumers that share one engine.
Consumers == 1 .. NumConsumers

\* StdMutex::new(..) of the engine's inner state, and consumers that have
\* not called yet.
ShareInit ==
    /\ eng_lock = 0
    /\ cpc = [c \in Consumers |-> "idle"]
    /\ seen = [c \in Consumers |-> OneWorkEngine(1)]

\* Registry::new(): an empty map, and no call made yet.
RegInit ==
    /\ reg_map = <<>>
    /\ reg_last = [op |-> "new", key |-> <<>>, result |-> FALSE]
    /\ reg_ops = 0
    /\ reg_received = {}

\* The components beside hub and adapter while they are not looked at.
ExtIdle ==
    /\ DevIdle
    /\ EngineIdle
    /\ ChanInit
    /\ SolInit
    /\ StatInit
    /\ ShareInit
    /\ RegInit

Init ==
    /\ HubInit
    /\ SolverInit
    /\ ExtIdle

(* ----------------------------- JobSender ------------------------------ *)

\* A bug that notifies on every send.
ShouldNotifyAlways(old_job) == TRUE

\* if old_job.is_none()
ShouldNotify(old_job) == old_job = None

\* Capacity of a futures mpsc::channel(buffer): the buffer plus one slot
\* per sender.
EventCapacity == EVENT_BUFFER + NumSenders

\* JobSender::send, first half: lock the slot and replace its content.
SendReplace(s, j) ==
    /\ sender_pc[s] = "idle"
    /\ sends < MaxSends
    /\ channel' = j
    /\ sender_pc' = [sender_pc EXCEPT
                       ![s] = IF ShouldNotify(channel) THEN "notify" ELSE "idle"]
    /\ sends' = sends + 1
    /\ empty_sends' = IF channel = None THEN empty_sends + 1 ELSE empty_sends
    /\ cleared' = FALSE
    /\ UNCHANGED <<events, events_sent>>
    /\ UNCHANGED gen_vars
    /\ UNCHANGED solver_vars
    /\ UNCHANGED ext_vars

\* JobSender::send, second half: try_send(NewJobEvent).expect(..).
SendNotify(s) ==
    /\ sender_pc[s] = "notify"
    /\ IF events < EventCapacity
       THEN /\ events' = events + 1
            /\ events_sent' = events_sent + 1
            /\ sender_pc' = [sender_pc EXCEPT ![s] = "idle"]
       ELSE /\ sender_pc' = [sender_pc EXCEPT ![s] = "panicked"]
            /\ UNCHANGED <<events, events_sent>>
    /\ UNCHANGED <<channel, sends, empty_sends, cleared>>
    /\ UNCHANGED gen_vars
    /\ UNCHANGED solver_vars
    /\ UNCHANGED ext_vars

\* A JobSender clone is dropped; with the last one the event stream closes.
DropSender(s) ==
    /\ sender_pc[s] = "idle"
    /\ sender_pc' = [sender_pc EXCEPT ![s] = "dropped"]
    /\ UNCHANGED <<channel, events, sends, empty_sends, events_sent, cleared>>
    /\ UNCHANGED gen_vars
    /\ UNCHANGED solver_vars
    /\ UNCHANGED ext_vars

\* Every sender is gone: the receiver's stream ends once it is drained.
Closed == \A s \in Senders : sender_pc[s] \in {"dropped", "panicked"}

(* --------------------------- WorkGenerator ---------------------------- *)

\* generate() is entered, as one of at most n calls; get_job computes
\* new_job = current.is_none().
GenerateCallOf(n) ==
    /\ pc = "idle"
    /\ calls < n
    /\ calls' = calls + 1
    /\ new_job' = (current = None)
    /\ pc' = IF current = None THEN "wait" ELSE "lock"
    /\ stream_end' = FALSE
    /\ job' = None
    /\ UNCHANGED <<channel, events, sender_pc, current, midstates,
                   next_version, base_version, result, emitted, sends,
                   empty_sends, events_sent, cleared>>
    /\ UNCHANGED solver_vars
    /\ UNCHANGED ext_vars

\* generate() is entered.
GenerateCall == GenerateCallOf(MaxCalls)

\* await!(self.job.event.next()): an event is taken, or the stream has ended
\* and next() yields None; the result is dropped either way.
AwaitEvent ==
    /\ pc = "wait"
    /\ \/ /\ events > 0
          /\ events' = events - 1
          /\ stream_end' = FALSE
       \/ /\ events = 0
          /\ Closed
          /\ events' = events
          /\ stream_end' = TRUE
    /\ pc' = "lock"
    /\ UNCHANGED <<channel, sender_pc, current, midstates, next_version,
                   base_version, new_job, job, result, emitted, calls,
                   sends, empty_sends, events_sent, cleared>>
    /\ UNCHANGED solver_vars
    /\ UNCHANGED ext_vars

\* A bug that leaves out the identity comparison with the slot's job.
IsNewJobNoCompare(nj, cur, top) == nj

\* A bug that takes every slot read for a new job.
IsNewJobAlways(nj, cur, top) == TRUE

\* new_job after the identity comparison with the slot's job.
IsNewJob(nj, cur, top) == nj \/ cur # top

\* self.job.current after "if new_job { current = Some(top) }".
NewCurrent(nj, cur, top) == IF nj THEN top ELSE cur

\* A bug that returns the job held before the update.
ReturnedJobStale(cur_before, cur_after) ==
    IF cur_before = None THEN cur_after ELSE cur_before

\* The job get_job returns: self.job.current after the update.
ReturnedJob(cur_before, cur_after) == cur_after

\* get_job after the await: lock the slot, expect a job in it, compare it
\* with current by identity and adopt it when it is new.
ReadSlot ==
    /\ pc = "lock"
    /\ IF channel = None
       THEN /\ pc' = "panicked"
            /\ UNCHANGED <<current, new_job, job>>
       ELSE LET nj == IsNewJob(new_job, current, channel)
                cur == NewCurrent(nj, current, channel)
            IN  /\ new_job' = nj
                /\ current' = cur
                /\ job' = ReturnedJob(current, cur)
                /\ pc' = "roll"
    /\ UNCHANGED <<channel, events, sender_pc, midstates, next_version,
                   base_version, stream_end, result, emitted, calls,
                   sends, empty_sends, events_sent, cleared>>
    /\ UNCHANGED solver_vars
    /\ UNCHANGED ext_vars

\* A bug u16::wrapping_add in place of checked_add would make.
wrapping_add(a, b) == <<(a + b) % (U16_MAX + 1)>>

\* A bug that lets the counter reach one past u16::MAX.
checked_add_past_max(a, b) == IF a + b > U16_MAX + 1 THEN <<>> ELSE <<a + b>>

\* u16::checked_add: <<>> is None (overflow), <<x>> is Some(x).
checked_add(a, b) == IF a + b > U16_MAX THEN <<>> ELSE <<a + b>>

\* A bug that takes the slot's job and keeps the local reference.
FinishKeepsCurrent(cur) == [channel |-> None, current |-> cur]

\* finish_current_job: the slot and the local reference are both taken.
finish_current_job(cur) == [channel |-> None, current |-> None]

\* version_start..self.next_version as a sequence (empty when the end is
\* not above the start).
Range(lo, hi) == [i \in 1 .. (IF hi > lo THEN hi - lo ELSE 0) |-> lo + i - 1]

\* A bug that rolls every block from counter 0.
version_start_zero(nj) == 0

\* version_start: 0 for a new job, else the previous next_version.
version_start(nj) == IF nj THEN 0 ELSE next_version

\* A bug that takes the job's version unmasked as the base.
base_unmasked(j) == version(j)

\* self.base_version for a new job: job.version() & !MASK.
new_base(j) == BitAndNot(version(j), MASK)

\* next_versions: the fields it leaves and the versions it returns.
\*   start: version_start, next: self.next_version, base: self.base_version,
\*   finished: finish_current_job was called.
next_versions(j, nj) ==
    LET roll ==
            IF nj
            THEN [start |-> version_start(nj), next |-> midstates,
                  base |-> new_base(j), finished |-> FALSE]
            ELSE IF checked_add(next_version, midstates) # <<>>
            THEN [start |-> version_start(nj),
                  next |-> checked_add(next_version, midstates)[1],
                  base |-> base_version, finished |-> FALSE]
            ELSE [start |-> version_start(nj), next |-> 0,
                  base |-> base_version, finished |-> TRUE]
        counters == Range(roll.start, roll.next)
    IN  [start |-> roll.start, next |-> roll.next, base |-> roll.base,
         finished |-> roll.finished,
         versions |-> [i \in DOMAIN counters |->
                          BitOr(roll.base, Shl(counters[i], SHIFT))]]

\* The 64 bytes generate() feeds for one version: version ||
\* previous_hash || merkle_root[0..28].  previous_hash and merkle_root are
\* the job's, so the job stands for them.
header_block(j, v) == [version |-> v, previous_hash |-> j, merkle_root |-> j]

\* sha256 engine.input(buffer).  SHA-256 is an opaque function of the bytes
\* fed so far: the engine's state is the sequence of blocks it was fed.
engine_input(engine, block) == Append(engine, block)

RECURSIVE build_midstates(_, _, _, _)
\* generate()'s loop over the versions: each version's block is fed to the
\* engine, which was created before the loop, and engine.midstate() is
\* pushed with the version.
build_midstates(j, versions, engine, out) ==
    IF versions = <<>>
    THEN out
    ELSE LET fed == engine_input(engine, header_block(j, Head(versions)))
         IN  build_midstates(j, Tail(versions), fed,
                             Append(out, [version |-> Head(versions),
                                          state |-> fed]))

\* let mut engine = sha256::Hash::engine()
new_engine == <<>>

\* The rest of generate(): roll the versions (clearing the job when the
\* counter would overflow), build one midstate per version and return
\* Some(MiningWork).  A work is recorded with the job it references, its
\* midstates' versions, and what the call saw: new_job, version_start and
\* self.job.current when next_versions was entered.
Roll ==
    /\ pc = "roll"
    /\ LET r == next_versions(job, new_job)
           f == finish_current_job(current)
       IN  /\ next_version' = r.next
           /\ base_version' = r.base
           /\ channel' = IF r.finished THEN f.channel ELSE channel
           /\ current' = IF r.finished THEN f.current ELSE current
           /\ cleared' = IF r.finished THEN TRUE ELSE cleared
           /\ emitted' = Append(emitted,
                                [job |-> job, versions |-> r.versions,
                                 midstates |-> build_midstates(
                                     job, r.versions, new_engine, <<>>),
                                 new_job |-> new_job, start |-> r.start,
                                 cur |-> current])
    /\ result' = "Some"
    /\ pc' = "idle"
    /\ UNCHANGED <<events, sender_pc, midstates, new_job, job, stream_end,
                   calls, sends, empty_sends, events_sent>>
    /\ UNCHANGED solver_vars
    /\ UNCHANGED ext_vars

Next ==
    \/ \E s \in Senders, j \in Jobs : SendReplace(s, j)
    \/ \E s \in Senders : SendNotify(s)
    \/ \E s \in Senders : DropSender(s)
    \/ GenerateCall
    \/ AwaitEvent
    \/ ReadSlot
    \/ Roll

Spec == Init /\ [][Next]_vars

\* Calls that roll one job over its whole address space at one midstate per
\* work, and two calls more.
MaxRollCalls == U16_MAX + 3

\* WorkHub::new followed by the first half of one send(job): the job is in
\* the slot and its event is still to be queued.  No job is published
\* afterwards, and the generator is called until the job's address space is
\* exhausted, also at one midstate per work as WorkGenerator::new sets it.
RollStart ==
    /\ channel \in Jobs
    /\ events = 0
    /\ \E s \in Senders :
          sender_pc = [x \in Senders |-> IF x = s THEN "notify" ELSE "idle"]
    /\ current = None
    /\ midstates \in {NEW_MIDSTATES, DEFAULT_MIDSTATE_COUNT}
    /\ next_version = 0
    /\ base_version = 0
    /\ pc = "idle"
    /\ new_job = FALSE
    /\ job = None
    /\ stream_end = FALSE
    /\ result = "-"
    /\ emitted = <<>>
    /\ calls = 0
    /\ sends = 1
    /\ empty_sends = 1
    /\ events_sent = 0
    /\ cleared = FALSE
    /\ SolverInit
    /\ ExtIdle

RollNext ==
    \/ \E s \in Senders : SendNotify(s)
    \/ \E s \in Senders : DropSender(s)
    \/ GenerateCallOf(MaxRollCalls)
    \/ AwaitEvent
    \/ ReadSlot
    \/ Roll

RollSpec == RollStart /\ [][RollNext]_vars

(* ------------------- BlockErupterSolver (device.rs) ------------------- *)

\* The nonces the device reports; 0 stands for "no nonce".
Nonces == 1 .. NumNonces

\* The instants SystemTime::now() is observed at, in ms: the instant the
\* adapter is built and one more than MAX_READ_TIME later.  The system
\* clock may also step back.  (TimeoutSpec covers every elapsed time.)
ClockValues == {0, MAX_READ_TIME + 1}

\* What libusb's read_bulk into the 4-byte buffer can return: Ok(n) with
\* the bytes read, Err(Timeout), or another error.
ReadResults ==
    {[kind |-> "Ok", n |-> NONCE_SIZE, nonce |-> v] : v \in Nonces}
        \cup {[kind |-> "Ok", n |-> k, nonce |-> 0] : k \in 0 .. NONCE_SIZE - 1}
        \cup {[kind |-> "Timeout", n |-> 0, nonce |-> 0],
              [kind |-> "Err", n |-> 0, nonce |-> 0]}

\* A read_bulk still in progress.
NoRead == [kind |-> "-", n |-> 0, nonce |-> 0]

\* A bug that takes a short read for a timeout.
wait_for_nonce_short_ignored(res) ==
    IF res.kind = "Ok" /\ res.n = NONCE_SIZE
    THEN [err |-> "Ok", nonce |-> res.nonce]
    ELSE IF res.kind = "Err"
         THEN [err |-> "Usb(cannot read nonce)", nonce |-> 0]
         ELSE [err |-> "Ok", nonce |-> 0]

\* A bug that takes a read timeout for a failure of the device.
wait_for_nonce_timeout_fatal(res) ==
    IF res.kind = "Ok" /\ res.n = NONCE_SIZE
    THEN [err |-> "Ok", nonce |-> res.nonce]
    ELSE IF res.kind = "Ok"
         THEN [err |-> "Usb(read incorrect number of bytes)", nonce |-> 0]
         ELSE [err |-> "Usb(cannot read nonce)", nonce |-> 0]

\* BlockErupter::wait_for_nonce: the error::Result<Option<u32>> it makes of
\* the read_bulk result.
device_wait_for_nonce(res) ==
    IF res.kind = "Ok"
    THEN IF res.n # NONCE_SIZE
         THEN [err |-> "Usb(read incorrect number of bytes)", nonce |-> 0]
         ELSE [err |-> "Ok", nonce |-> res.nonce]
    ELSE IF res.kind = "Timeout"
         THEN [err |-> "Ok", nonce |-> 0]
         ELSE [err |-> "Usb(cannot read nonce)", nonce |-> 0]

\* BlockErupter::send_work's result as BlockErupterSolver::send_work keeps
\* it: the stop reason after a write that went well or failed.
send_stop_reason(ok) == IF ok THEN stop_reason ELSE "Usb(cannot send work)"

\* Duration::checked_sub: <<>> is None, <<d>> is Some(d).
checked_sub(a, b) == IF b > a THEN <<>> ELSE <<a - b>>

\* Option::unwrap_or
unwrap_or(o, d) == IF o = <<>> THEN d ELSE o[1]

\* MAX_READ_TIME.checked_sub(duration).unwrap_or(WAIT_TIMEOUT)
timeout_rem(duration) ==
    unwrap_or(checked_sub(MAX_READ_TIME, duration), WAIT_TIMEOUT_MS)

\* A bug that measures a clock behind work_start as no time elapsed.
duration_since_saturating(now, start) ==
    IF now < start THEN <<0>> ELSE <<now - start>>

\* SystemTime::duration_since: <<>> is Err (now is earlier than start),
\* <<d>> is Ok(d).
duration_since(now, start) == IF now < start THEN <<>> ELSE <<now - start>>

\* A bug u32::wrapping_add in place of checked_add would make.
wrapping_add_u32(a, b) == <<(a + b) % (U32_MAX + 1)>>

\* u32::checked_add on solution_id: <<>> is None, <<x>> is Some(x).
checked_add_u32(a, b) == IF a + b > U32_MAX THEN <<>> ELSE <<a + b>>

\* create_unique_solution; read is history, the number of the device read
\* the nonce came from.
create_unique_solution(work, nonce, timestamp, id) ==
    [work |-> work, nonce |-> nonce, timestamp |-> timestamp,
     solution_id |-> id, read |-> Len(reads)]

\* What next() returned: Some(solution) or None.
ReturnedSome(s, n) == [kind |-> "Some", solution |-> s, call |-> n]

ReturnedNone == [kind |-> "None", solution |-> NoSolution,
                 call |-> next_calls]

\* A bug that returns the stashed solution and keeps it stashed.
stash_kept(s) == s

\* self.next_solution.take(): what the slot holds afterwards.
stash_taken(s) == NoSolution

\* A bug that attributes the nonce to the current work only.
correlate_current_only(solution, prev) ==
    [returned |-> solution, stash |-> NoSolution]

\* match prev_work.take(): the solution next() returns and the one it
\* stashes in next_solution.
correlate(solution, prev) ==
    IF prev = NoPrev
    THEN [returned |-> solution, stash |-> NoSolution]
    ELSE [returned |-> create_unique_solution(prev.work, solution.nonce,
                                              solution.timestamp,
                                              prev.solution_id),
          stash |-> solution]

\* A bug that hands the device the previous Assignment again.
sent_previous(work) == IF prev_work = NoPrev THEN work ELSE prev_work.work

\* self.send_work(&work): the Assignment whose payload is written.
sent_work(work) == work

\* A bug that keeps counting solution ids over a switch of work.
installed_id_kept(id) == id

\* self.solution_id = 0 when a new Assignment is installed.
installed_id(id) == 0

\* A bug that keeps an older previous work over a second switch.
take_prev_keeps_older(work, id) ==
    IF prev_work # NoPrev
    THEN prev_work
    ELSE IF work = NoWork THEN NoPrev ELSE [work |-> work, solution_id |-> id]

\* self.curr_work.take().map(|work| (work, self.solution_id))
take_prev(work, id) ==
    IF work = NoWork THEN NoPrev ELSE [work |-> work, solution_id |-> id]

\* A bug that asks the generator once more after it returned None.
generate_none_retries(ended) == FALSE

\* work::Generator::generate returned None: whether next() leaves.
generate_none_breaks(ended) == TRUE

\* What work::Generator::generate can return: the next Assignment in the
\* generator's order, or None; after None, None again.
GenerateResults ==
    IF gen_ended \/ produced >= MaxWorks
    THEN {NoWork}
    ELSE {NoWork, produced + 1}

\* A bug that stays in the loop whatever stop_reason holds.
loop_continues_always(reason) == TRUE

\* while self.stop_reason.borrow().is_ok()
loop_continues(reason) == reason = "Ok"

\* next() as one of at most n calls, the stashed solution is returned at
\* once.
NextStashedOf(n) ==
    /\ spc = "idle"
    /\ next_calls < n
    /\ next_solution # NoSolution
    /\ next_calls' = next_calls + 1
    /\ returned' = Append(returned,
                           ReturnedSome(next_solution, next_calls + 1))
    /\ next_solution' = stash_taken(next_solution)
    /\ UNCHANGED <<spc, curr_work, prev_work, solution_id, stop_reason,
                   work_start, pending_work, read_timeout, clock, produced,
                   gen_ended, written, reads, stop_result>>
    /\ UNCHANGED hub_vars
    /\ UNCHANGED ext_vars

\* next(), the stashed solution is returned at once.
NextStashed == NextStashedOf(MaxNext)

\* next() as one of at most n calls with nothing stashed: prev_work = None,
\* enter the loop.
NextEnterOf(n) ==
    /\ spc = "idle"
    /\ next_calls < n
    /\ next_solution = NoSolution
    /\ next_calls' = next_calls + 1
    /\ prev_work' = NoPrev
    /\ spc' = "loop"
    /\ UNCHANGED <<curr_work, next_solution, solution_id, stop_reason,
                   work_start, pending_work, read_timeout, clock, produced,
                   gen_ended, returned, written, reads, stop_result>>
    /\ UNCHANGED hub_vars
    /\ UNCHANGED ext_vars

\* next() with nothing stashed: prev_work = None, enter the loop.
NextEnter == NextEnterOf(MaxNext)

\* while self.stop_reason.borrow().is_ok() fails: next() returns None.
LoopExit ==
    /\ spc = "loop"
    /\ ~loop_continues(stop_reason)
    /\ returned' = Append(returned, ReturnedNone)
    /\ spc' = "idle"
    /\ UNCHANGED <<curr_work, prev_work, next_solution, solution_id,
                   stop_reason, work_start, pending_work, read_timeout,
                   clock, produced, gen_ended, written, reads, next_calls,
                   stop_result>>
    /\ UNCHANGED hub_vars
    /\ UNCHANGED ext_vars

\* BlockErupterSolver::wait_for_nonce up to the device read: the elapsed
\* time, then the read with the remaining timeout.  A clock behind
\* work_start is stored as a Timer error and next() returns None.  At most
\* n reads are started.
WaitStartOf(n) ==
    /\ spc = "loop"
    /\ loop_continues(stop_reason)
    /\ curr_work # NoWork
    /\ Len(reads) < n
    /\ LET duration == duration_since(clock, work_start)
       IN  IF duration = <<>>
           THEN /\ stop_reason' =
                       "Timer(cannot measure elapsed time of work solution)"
                /\ returned' = Append(returned, ReturnedNone)
                /\ spc' = "idle"
                /\ UNCHANGED <<read_timeout, reads>>
           ELSE /\ read_timeout' = timeout_rem(duration[1])
                /\ reads' = Append(reads,
                                   [work |-> curr_work,
                                    elapsed |-> duration[1],
                                    timeout |-> timeout_rem(duration[1]),
                                    call |-> next_calls,
                                    raw |-> NoRead])
                /\ spc' = "read"
                /\ UNCHANGED <<stop_reason, returned>>
    /\ UNCHANGED <<curr_work, prev_work, next_solution, solution_id,
                   work_start, pending_work, clock, produced, gen_ended,
                   written, next_calls, stop_result>>
    /\ UNCHANGED hub_vars
    /\ UNCHANGED ext_vars

\* BlockErupterSolver::wait_for_nonce up to the device read.
WaitStart == WaitStartOf(MaxReads)

\* No current work: straight to the switch of work.
SkipWait ==
    /\ spc = "loop"
    /\ loop_continues(stop_reason)
    /\ curr_work = NoWork
    /\ spc' = "switch"
    /\ UNCHANGED <<curr_work, prev_work, next_solution, solution_id,
                   stop_reason, work_start, pending_work, read_timeout,
                   clock, produced, gen_ended, returned, written, reads,
                   next_calls, stop_result>>
    /\ UNCHANGED hub_vars
    /\ UNCHANGED ext_vars

\* The device read ends: an error is stored and next() returns None, a
\* timeout leads to the switch of work, a nonce is made into solutions.
ReadDone(res) ==
    /\ spc = "read"
    /\ LET r == device_wait_for_nonce(res)
           solution == create_unique_solution(curr_work, r.nonce, clock,
                                              solution_id)
           id == checked_add_u32(solution_id, 1)
           c == correlate(solution, prev_work)
       IN  /\ reads' = [reads EXCEPT ![Len(reads)].raw = res]
           /\ IF r.err # "Ok"
              THEN /\ stop_reason' = r.err
                   /\ returned' = Append(returned, ReturnedNone)
                   /\ spc' = "idle"
                   /\ UNCHANGED <<prev_work, next_solution, solution_id>>
              ELSE IF r.nonce = 0
              THEN /\ spc' = "switch"
                   /\ UNCHANGED <<prev_work, next_solution, solution_id,
                                  stop_reason, returned>>
              ELSE IF id = <<>>
              THEN /\ spc' = "panicked"
                   /\ UNCHANGED <<prev_work, next_solution, solution_id,
                                  stop_reason, returned>>
              ELSE /\ solution_id' = id[1]
                   /\ prev_work' = NoPrev
                   /\ next_solution' = c.stash
                   /\ returned' = Append(returned, ReturnedSome(c.returned,
                                                          next_calls))
                   /\ spc' = "idle"
                   /\ UNCHANGED stop_reason
    /\ UNCHANGED <<curr_work, work_start, pending_work, read_timeout, clock,
                   produced, gen_ended, written, next_calls, stop_result>>
    /\ UNCHANGED hub_vars
    /\ UNCHANGED ext_vars

\* The current work becomes the previous one and the generator is asked
\* for the next Assignment; on None next() returns None.
Switch(g) ==
    /\ spc = "switch"
    /\ g \in GenerateResults
    /\ prev_work' = take_prev(curr_work, solution_id)
    /\ curr_work' = NoWork
    /\ IF g = NoWork
       THEN /\ gen_ended' = TRUE
            /\ IF generate_none_breaks(gen_ended)
               THEN /\ returned' = Append(returned, ReturnedNone)
                    /\ spc' = "idle"
               ELSE /\ spc' = "switch"
                    /\ UNCHANGED returned
            /\ UNCHANGED <<pending_work, produced>>
       ELSE /\ pending_work' = g
            /\ produced' = g
            /\ spc' = "send"
            /\ UNCHANGED <<gen_ended, returned>>
    /\ UNCHANGED <<next_solution, solution_id, stop_reason, work_start,
                   read_timeout, clock, written, reads, next_calls,
                   stop_result>>
    /\ UNCHANGED hub_vars
    /\ UNCHANGED ext_vars

\* BlockErupterSolver::send_work and the installation of the work: stamp
\* work_start, write the payload (a failure is stored), curr_work =
\* Some(work), solution_id = 0.
SendWork(ok) ==
    /\ spc = "send"
    /\ work_start' = clock
    /\ written' = Append(written, [work |-> sent_work(pending_work),
                                   ok |-> ok, call |-> next_calls])
    /\ stop_reason' = send_stop_reason(ok)
    /\ curr_work' = pending_work
    /\ solution_id' = installed_id(solution_id)
    /\ pending_work' = NoWork
    /\ spc' = "loop"
    /\ UNCHANGED <<prev_work, next_solution, read_timeout, clock, produced,
                   gen_ended, returned, reads, next_calls, stop_result>>
    /\ UNCHANGED hub_vars
    /\ UNCHANGED ext_vars

\* get_stop_reason consumes the adapter and yields the stored result.
GetStopReason ==
    /\ spc = "idle"
    /\ stop_result' = stop_reason
    /\ stop_reason' = "Ok"
    /\ spc' = "consumed"
    /\ UNCHANGED <<curr_work, prev_work, next_solution, solution_id,
                   work_start, pending_work, read_timeout, clock, produced,
                   gen_ended, returned, written, reads, next_calls>>
    /\ UNCHANGED hub_vars
    /\ UNCHANGED ext_vars

\* The system clock moves, forward or back, while the adapter is inside
\* next().
ClockStep(t) ==
    /\ spc \in {"loop", "read", "send"}
    /\ t # clock
    /\ clock' = t
    /\ UNCHANGED <<spc, curr_work, prev_work, next_solution, solution_id,
                   stop_reason, work_start, pending_work, read_timeout,
                   produced, gen_ended, returned, written, reads,
                   next_calls, stop_result>>
    /\ UNCHANGED hub_vars
    /\ UNCHANGED ext_vars

SolverNext ==
    \/ NextStashed
    \/ NextEnter
    \/ LoopExit
    \/ WaitStart
    \/ SkipWait
    \/ \E res \in ReadResults : ReadDone(res)
    \/ \E g \in 0 .. MaxWorks : Switch(g)
    \/ \E ok \in BOOLEAN : SendWork(ok)
    \/ GetStopReason
    \/ \E t \in ClockValues : ClockStep(t)

\* The adapter just built, over a job channel nobody uses.
SolverStart ==
    /\ Init
    /\ midstates = NEW_MIDSTATES

SolverSpec == SolverStart /\ [][SolverNext]_vars

(* ---- the adapter over the fixture engine (test_block_erupter_solver) --- *)

\* The fixture blocks by their place in TEST_BLOCKS; the work generated
\* from block k is work k.
Blocks == 1 .. NumBlocks

\* The nonce of fixture block k.  Neighbouring blocks have different
\* nonces.
fixture_nonce(k) == ((k - 1) % NumNonces) + 1

\* solution.hash(): the header hash, a function of the work's header and
\* the nonce.
hash(solution) == <<solution.work, solution.nonce>>

\* block.hash of fixture block k: the hash of its header with its nonce.
block_hash(k) == <<k, fixture_nonce(k)>>

\* The next() calls and the reads it takes to solve every block: the first
\* block in one, each later one in two, and one more to see the end.
FixtureSteps == 2 * NumBlocks

\* The device of the test: it answers the first read after a work was
\* written with the nonce of that work's block, and has no other nonce
\* for it.
FixtureRead ==
    LET w == written[Len(written)].work
        answered == \E n \in 1 .. Len(reads) - 1 :
                        /\ reads[n].work = reads[Len(reads)].work
                        /\ reads[n].raw.kind = "Ok"
    IN  IF answered
        THEN [kind |-> "Timeout", n |-> 0, nonce |-> 0]
        ELSE [kind |-> "Ok", n |-> NONCE_SIZE, nonce |-> fixture_nonce(w)]

\* create_test_work_generator: the works of the fixture blocks in order,
\* then None.
FixtureGenerate == IF produced < NumBlocks THEN produced + 1 ELSE NoWork

\* The solutions next() has returned, in order.
ReturnedSolutions ==
    LET some == SelectSeq(returned, LAMBDA r : r.kind = "Some")
    IN  [i \in DOMAIN some |-> some[i].solution]

\* The blocks the test has found solved: the returned solutions whose hash
\* is a fixture block's, in order.
Solved ==
    LET hit == SelectSeq(ReturnedSolutions,
                         LAMBDA s : s.work \in Blocks
                                      /\ hash(s) = block_hash(s.work))
    IN  [i \in DOMAIN hit |-> hit[i].work]

\* The test's for loop has ended: next() returned None, or the last block
\* was found solved.
FixtureLoopEnded ==
    \/ Len(Solved) >= NumBlocks
    \/ returned # <<>> /\ returned[Len(returned)].kind = "None"

\* for solution in &mut solver
FixtureNextCall ==
    /\ ~FixtureLoopEnded
    /\ \/ NextStashedOf(FixtureSteps)
       \/ NextEnterOf(FixtureSteps)

\* solver.get_stop_reason() after the loop
FixtureGetStopReason ==
    /\ FixtureLoopEnded
    /\ GetStopReason

\* The clock goes forward while the adapter is inside next().
FixtureClockStep == \E t \in ClockValues : t > clock /\ ClockStep(t)

FixtureNext ==
    \/ FixtureNextCall
    \/ WaitStartOf(FixtureSteps)
    \/ SkipWait
    \/ ReadDone(FixtureRead)
    \/ Switch(FixtureGenerate)
    \/ SendWork(TRUE)
    \/ FixtureGetStopReason
    \/ FixtureClockStep

FixtureSpec == SolverStart /\ [][FixtureNext]_vars

\* The test's thread runs; the clock need not move.
FixtureFairSpec ==
    /\ FixtureSpec
    /\ WF_vars(FixtureNextCall)
    /\ WF_vars(WaitStartOf(FixtureSteps))
    /\ WF_vars(SkipWait)
    /\ WF_vars(ReadDone(FixtureRead))
    /\ WF_vars(Switch(FixtureGenerate))
    /\ WF_vars(SendWork(TRUE))
    /\ WF_vars(FixtureGetStopReason)

\* The largest elapsed time explored for the timeout computation.
MaxElapsed == FULL_NONCE_TIME_MS

\* The adapter at the start of a wait inside its first next() call, its
\* first work sent at instant 0, at every instant of the clock up to
\* MaxElapsed.
TimeoutInit ==
    /\ HubInit
    /\ ExtIdle
    /\ midstates = NEW_MIDSTATES
    /\ spc = "loop"
    /\ curr_work = 1
    /\ prev_work = NoPrev
    /\ next_solution = NoSolution
    /\ solution_id = 0
    /\ stop_reason = "Ok"
    /\ work_start = 0
    /\ pending_work = NoWork
    /\ read_timeout = 0
    /\ clock \in 0 .. MaxElapsed
    /\ produced = 1
    /\ gen_ended = FALSE
    /\ returned = <<>>
    /\ written = <<[work |-> 1, ok |-> TRUE, call |-> 1]>>
    /\ reads = <<>>
    /\ next_calls = 1
    /\ stop_result = "-"

TimeoutNext == WaitStart

TimeoutSpec == TimeoutInit /\ [][TimeoutNext]_vars

(* ----------------------- BlockErupter::init --------------------------- *)

\* A bug that goes on after a failed call.
call_failure_ignored(call) == FALSE

\* The ? after each device call: whether the call returned Err.
call_failed(call) == call \in failing

\* One device call of init: made, and on Err init returns the Usb error
\* with the call's description; else init goes on at nxt, returning Ok
\* after the last call.
DeviceCall(call, err, nxt) ==
    /\ init_calls' = Append(init_calls, call)
    /\ IF call_failed(call)
       THEN /\ init_result' = err
            /\ init_pc' = "returned"
       ELSE /\ init_result' = IF nxt = "returned" THEN "Ok" ELSE init_result
            /\ init_pc' = nxt
    /\ UNCHANGED <<supports_detach, driver_active, failing>>
    /\ UNCHANGED not_dev_vars

\* self.device.reset()
InitReset ==
    /\ init_pc = "reset"
    /\ DeviceCall("reset", "Usb(cannot reset device)",
                  IF supports_detach THEN "detect" ELSE "configure")

\* self.device.kernel_driver_active(DEVICE_IFACE)
InitDetectDriver ==
    /\ init_pc = "detect"
    /\ DeviceCall("kernel_driver_active", "Usb(cannot detect kernel driver)",
                  IF driver_active THEN "detach" ELSE "configure")

\* self.device.detach_kernel_driver(DEVICE_IFACE)
InitDetachDriver ==
    /\ init_pc = "detach"
    /\ DeviceCall("detach_kernel_driver", "Usb(cannot detach kernel driver)",
                  "configure")

\* self.device.set_active_configuration(DEVICE_CONFIGURATION)
InitSetConfiguration ==
    /\ init_pc = "configure"
    /\ DeviceCall("set_active_configuration",
                  "Usb(cannot set active configuration)", "uart")

\* write_control(.., CP210X_REQUEST_IFC_ENABLE, ..)
InitEnableUart ==
    /\ init_pc = "uart"
    /\ DeviceCall("enable UART", "Usb(cannot enable UART)", "data")

\* write_control(.., CP210X_REQUEST_DATA, ..)
InitSetDataControl ==
    /\ init_pc = "data"
    /\ DeviceCall("set data control", "Usb(cannot set data control)", "baud")

\* write_control(.., CP210X_REQUEST_BAUD, ..)
InitSetBaud ==
    /\ init_pc = "baud"
    /\ DeviceCall("set baud rate", "Usb(cannot set baud rate)", "returned")

DevNext ==
    \/ InitReset
    \/ InitDetectDriver
    \/ InitDetachDriver
    \/ InitSetConfiguration
    \/ InitEnableUart
    \/ InitSetDataControl
    \/ InitSetBaud

\* A device being initialised, beside a hub and an adapter nobody uses.
DevStart ==
    /\ HubInit
    /\ midstates = NEW_MIDSTATES
    /\ SolverInit
    /\ DevInit
    /\ EngineIdle
    /\ ChanInit
    /\ SolInit
    /\ StatInit
    /\ ShareInit
    /\ RegInit

DevSpec == DevStart /\ [][DevNext]_vars

(* -------------------- work engines (test_utils.rs) -------------------- *)

\* work::LoopState<work::Assignment> together with the engine's inner
\* state after the call.
LoopState(state, w, inner) == [state |-> state, work |-> w, engine |-> inner]

\* OneWorkEngineInner::is_exhausted
\* A bug that never reports a OneWorkEngine exhausted.
one_is_exhausted_never(e) == FALSE

one_is_exhausted(e) == e.work = NoWork

\* A bug that hands out the work and keeps it.
one_next_work_keeps(e) ==
    IF e.work # NoWork
    THEN LoopState("Break", e.work, e)
    ELSE LoopState("Exhausted", NoWork, e)

\* OneWorkEngineInner::next_work
one_next_work(e) ==
    IF e.work # NoWork
    THEN LoopState("Break", e.work, [e EXCEPT !.work = NoWork])
    ELSE LoopState("Exhausted", NoWork, e)

\* A bug that never reports a TestWorkEngine exhausted.
test_is_exhausted_never(e) == FALSE

\* A bug that looks at the iterator in place of the block taken from it.
test_is_exhausted_iter(e) == e.test_block_iter >= e.blocks

\* TestWorkEngineInner::is_exhausted
test_is_exhausted(e) == e.next_test_block = 0

\* A bug that takes the last block without saying it is the last.
test_next_work_no_break(e) ==
    IF test_is_exhausted(e)
    THEN LoopState("Exhausted", NoWork, e)
    ELSE IF e.test_block_iter >= e.blocks
         THEN LoopState("Continue", e.next_test_block,
                        [e EXCEPT !.next_test_block = 0])
         ELSE LoopState("Continue", e.next_test_block,
                        [e EXCEPT !.next_test_block = e.test_block_iter + 1,
                                  !.test_block_iter = e.test_block_iter + 1])

\* TestWorkEngineInner::next_work: test_block_iter.next() is None once
\* the iterator has yielded every block.
test_next_work(e) ==
    IF test_is_exhausted(e)
    THEN LoopState("Exhausted", NoWork, e)
    ELSE IF e.test_block_iter >= e.blocks
         THEN LoopState("Break", e.next_test_block,
                        [e EXCEPT !.next_test_block = 0])
         ELSE LoopState("Continue", e.next_test_block,
                        [e EXCEPT !.next_test_block = e.test_block_iter + 1,
                                  !.test_block_iter = e.test_block_iter + 1])

\* work::Engine::is_exhausted of either implementation
is_exhausted(e) ==
    IF e.kind = "one" THEN one_is_exhausted(e) ELSE test_is_exhausted(e)

\* work::Engine::next_work of either implementation
next_work(e) == IF e.kind = "one" THEN one_next_work(e) ELSE test_next_work(e)

\* engine.next_work() called directly, as test_work_receiver does.
EngineNextWork(id) ==
    /\ Len(eng_log) < MaxEngineCalls
    /\ LET r == next_work(engines[id])
       IN  /\ engines' = [engines EXCEPT ![id] = r.engine]
           /\ eng_log' = Append(eng_log, [engine |-> id, op |-> "next_work",
                                          state |-> r.state, work |-> r.work])
    /\ UNCHANGED not_engine_vars

\* engine.is_exhausted() called directly.
EngineIsExhausted(id) ==
    /\ Len(eng_log) < MaxEngineCalls
    /\ eng_log' = Append(eng_log,
                         [engine |-> id, op |-> "is_exhausted",
                          state |-> IF is_exhausted(engines[id])
                                    THEN "true" ELSE "false",
                          work |-> NoWork])
    /\ UNCHANGED engines
    /\ UNCHANGED not_engine_vars

\* The engine the direct calls are made on.
TestedEngine == 1

EngineNext ==
    \/ EngineNextWork(TestedEngine)
    \/ EngineIsExhausted(TestedEngine)

\* One engine of any kind under direct calls; the other engines are not
\* used.
EngineStart ==
    /\ HubInit
    /\ midstates = NEW_MIDSTATES
    /\ SolverInit
    /\ DevIdle
    /\ EngineInit
    /\ ChanInit
    /\ SolInit
    /\ StatInit
    /\ ShareInit
    /\ RegInit
    /\ \A e \in Engines : e # TestedEngine => engines[e] = OneWorkEngine(1)

EngineSpec == EngineStart /\ [][EngineNext]_vars

(* --------------------- consumers of a shared engine ------------------- *)

\* A bug that hands out the guard while another consumer holds it.
can_lock_always(holder) == TRUE

\* self.inner.lock(): the mutex is free.
can_lock(holder) == holder = 0

\* engine.next_work() by consumer c, lock_inner(): the guard on the inner
\* state is taken.
ConsumerLock(c) ==
    /\ cpc[c] = "idle"
    /\ Len(eng_log) < MaxEngineCalls
    /\ can_lock(eng_lock)
    /\ eng_lock' = c
    /\ seen' = [seen EXCEPT ![c] = engines[TestedEngine]]
    /\ cpc' = [cpc EXCEPT ![c] = "locked"]
    /\ UNCHANGED engine_vars
    /\ UNCHANGED not_share_vars

\* engine.next_work() by consumer c: the inner next_work() through the
\* guard, which is then dropped.
ConsumerNextWork(c) ==
    /\ cpc[c] = "locked"
    /\ LET r == next_work(seen[c])
       IN  /\ engines' = [engines EXCEPT ![TestedEngine] = r.engine]
           /\ eng_log' = Append(eng_log,
                                [engine |-> TestedEngine, op |-> "next_work",
                                 state |-> r.state, work |-> r.work,
                                 caller |-> c])
    /\ eng_lock' = 0
    /\ cpc' = [cpc EXCEPT ![c] = "idle"]
    /\ UNCHANGED seen
    /\ UNCHANGED not_share_vars

ShareNext ==
    \/ \E c \in Consumers : ConsumerLock(c)
    \/ \E c \in Consumers : ConsumerNextWork(c)

ShareSpec == EngineStart /\ [][ShareNext]_vars

(* ------------- engine channel, backend and orchestrator --------------- *)

\* EngineSender::broadcast(engine): the engine becomes the latest.
broadcast(e) == [slot |-> e, fresh |-> TRUE]

\* get_engine's look at the slot: the engine it returns, or NoEngine when
\* there is none or the latest is exhausted and it has to await a
\* broadcast.
current_engine(s) ==
    IF s # NoEngine /\ ~is_exhausted(engines[s]) THEN s ELSE NoEngine

\* The receiver has seen the held engine go from not exhausted to
\* exhausted over a next_work(): one notification is due.
just_exhausted(before, after) == ~is_exhausted(before) /\ is_exhausted(after)

\* The engine's own state says there is no work left, whatever
\* is_exhausted answers.
Spent(e) ==
    IF e.kind = "one" THEN e.work = NoWork ELSE e.next_test_block = 0

\* get_engine looks at the slot and returns the engine or starts to wait.
LookAtSlot ==
    LET e == current_engine(slot)
    IN  /\ fresh' = FALSE
        /\ IF e # NoEngine
           THEN /\ held' = e
                /\ got' = Append(got,
                                 [engine |-> e,
                                  spent |-> Spent(engines[e]),
                                  prev |-> held,
                                  prev_spent |-> IF held = NoEngine THEN TRUE
                                                 ELSE Spent(engines[held]),
                                  notified |-> notified])
                /\ bpc' = "work"
           ELSE /\ bpc' = "wait"
                /\ UNCHANGED <<held, got>>
        /\ UNCHANGED <<slot, opc, reschedule, notified, broadcasts, regets>>
        /\ UNCHANGED engine_vars
        /\ UNCHANGED not_chan_vars

\* receiver.get_engine() is called.
GetEngine ==
    /\ bpc = "get"
    /\ LookAtSlot

\* get_engine is woken by a fresh broadcast and looks again.
WaitEngine ==
    /\ bpc = "wait"
    /\ fresh
    /\ LookAtSlot

\* The backend asks for the engine once more without taking work, as
\* test_work_receiver does.
GetEngineAgain ==
    /\ bpc = "work"
    /\ regets < MaxRegets
    /\ regets' = regets + 1
    /\ bpc' = "get"
    /\ UNCHANGED <<slot, fresh, held, opc, reschedule, notified, broadcasts,
                   got>>
    /\ UNCHANGED engine_vars
    /\ UNCHANGED not_chan_vars

\* The backend takes the next work of the engine it holds; an engine that
\* has just become exhausted is notified on the reschedule channel; then
\* the backend asks for the engine again.
GenerateNextWork ==
    /\ bpc = "work"
    /\ Len(eng_log) < MaxGenerate
    /\ LET r == next_work(engines[held])
       IN  /\ engines' = [engines EXCEPT ![held] = r.engine]
           /\ eng_log' = Append(eng_log,
                                [engine |-> held, op |-> "next_work",
                                 state |-> r.state, work |-> r.work])
           /\ IF just_exhausted(engines[held], r.engine)
              THEN /\ reschedule' = Append(reschedule, held)
                   /\ notified' = Append(notified, held)
              ELSE UNCHANGED <<reschedule, notified>>
    /\ bpc' = "get"
    /\ UNCHANGED <<slot, fresh, held, opc, broadcasts, got, regets>>
    /\ UNCHANGED not_chan_vars

\* test_block_mining after a broadcast: the loop awaits a notification
\* before each broadcast of its own; after the last problem it is done.
after_broadcast(n) == IF n >= MaxEngines THEN "done" ELSE "await"

\* engine_sender.broadcast(Arc::new(OneWorkEngine::new(..)))
OrchBroadcast ==
    /\ opc = "broadcast"
    /\ broadcasts < MaxEngines
    /\ slot' = broadcast(broadcasts + 1).slot
    /\ fresh' = broadcast(broadcasts + 1).fresh
    /\ broadcasts' = broadcasts + 1
    /\ opc' = after_broadcast(broadcasts + 1)
    /\ UNCHANGED <<held, bpc, reschedule, notified, got, regets>>
    /\ UNCHANGED engine_vars
    /\ UNCHANGED not_chan_vars

\* await!(reschedule_receiver.next())
OrchAwait ==
    /\ opc = "await"
    /\ reschedule # <<>>
    /\ reschedule' = Tail(reschedule)
    /\ opc' = "broadcast"
    /\ UNCHANGED <<slot, fresh, held, bpc, notified, broadcasts, got,
                   regets>>
    /\ UNCHANGED engine_vars
    /\ UNCHANGED not_chan_vars

ChanNext ==
    \/ GetEngine
    \/ WaitEngine
    \/ GetEngineAgain
    \/ GenerateNextWork
    \/ OrchBroadcast
    \/ OrchAwait

\* The engines the orchestrator broadcasts: built with work in them.
FreshEngines == {OneWorkEngine(1), TestWorkEngine(NumBlocks)}

ChanStart ==
    /\ HubInit
    /\ midstates = NEW_MIDSTATES
    /\ SolverInit
    /\ DevIdle
    /\ engines \in [Engines -> FreshEngines]
    /\ eng_log = <<>>
    /\ ChanInit
    /\ SolInit
    /\ StatInit
    /\ ShareInit
    /\ RegInit

ChanSpec == ChanStart /\ [][ChanNext]_vars

\* The backend and the orchestrator are tasks that run when they can.
ChanFairSpec ==
    /\ ChanSpec
    /\ WF_vars(GetEngine)
    /\ WF_vars(WaitEngine)
    /\ WF_vars(OrchBroadcast)
    /\ WF_vars(OrchAwait)

(* -------------------------- solution channel -------------------------- *)

\* A bug that puts a solution in front of the ones already queued.
unbounded_send_first(queue, solution) == <<solution>> \o queue

\* self.0.unbounded_send(solution): the solution goes to the queue's end.
unbounded_send(queue, solution) == Append(queue, solution)

\* WorkSolutionSender::send by producer p, its n-th solution.
SolSend(p) ==
    /\ p \in sol_senders
    /\ sol_sent[p] < MaxSolutions
    /\ sol_sent' = [sol_sent EXCEPT ![p] = @ + 1]
    /\ sol_queue' = unbounded_send(sol_queue,
                                   [producer |-> p, n |-> sol_sent[p] + 1])
    /\ UNCHANGED <<sol_senders, sol_received, sol_done>>
    /\ UNCHANGED not_sol_vars

\* A producer ends and its WorkSolutionSender is dropped.
SolDropSender(p) ==
    /\ p \in sol_senders
    /\ sol_senders' = sol_senders \ {p}
    /\ UNCHANGED <<sol_queue, sol_sent, sol_received, sol_done>>
    /\ UNCHANGED not_sol_vars

\* JobSolutionReceiver::receive with a solution queued: Some(solution).
SolReceive ==
    /\ ~sol_done
    /\ sol_queue # <<>>
    /\ sol_received' = Append(sol_received, Head(sol_queue))
    /\ sol_queue' = Tail(sol_queue)
    /\ UNCHANGED <<sol_senders, sol_sent, sol_done>>
    /\ UNCHANGED not_sol_vars

\* JobSolutionReceiver::receive on the closed, empty queue: None, and the
\* while-let loop of collect_solutions ends.
SolReceiveNone ==
    /\ ~sol_done
    /\ sol_queue = <<>>
    /\ sol_senders = {}
    /\ sol_done' = TRUE
    /\ UNCHANGED <<sol_queue, sol_senders, sol_sent, sol_received>>
    /\ UNCHANGED not_sol_vars

SolNext ==
    \/ \E p \in Producers : SolSend(p)
    \/ \E p \in Producers : SolDropSender(p)
    \/ SolReceive
    \/ SolReceiveNone

SolStart ==
    /\ HubInit
    /\ midstates = NEW_MIDSTATES
    /\ SolverInit
    /\ DevIdle
    /\ EngineIdle
    /\ ChanInit
    /\ SolInit
    /\ StatInit
    /\ ShareInit
    /\ RegInit

SolSpec == SolStart /\ [][SolNext]_vars

\* collect_solutions is a spawned task that runs when it can.
SolFairSpec ==
    /\ SolSpec
    /\ WF_vars(SolReceive)
    /\ WF_vars(SolReceiveNone)

(* --------------------------- share accounting ------------------------- *)

\* target.get_difficulty() as u64
Difficulties == 1 .. MaxDifficulty

\* A bug that leaves the counter as it is when the reporter reads it.
swap_keeps(counter, value) == counter

\* AtomicU64::swap(value): the counter's new value
swap(counter, value) == value

\* AtomicU64::fetch_add(d): the counter's new value, wrapping around
fetch_add(counter, d) == (counter + d) % (U64_MAX + 1)

\* account_solution(target) for a target of difficulty d
AccountSolution(d) ==
    /\ Len(accounted) < MaxAccounts
    /\ share_counter' = fetch_add(share_counter, d)
    /\ accounted' = Append(accounted, d)
    /\ wraps' = IF share_counter + d > U64_MAX THEN wraps + 1 ELSE wraps
    /\ UNCHANGED <<total_shares, reports>>
    /\ UNCHANGED not_stat_vars

\* One round of hashrate_meter_task's loop:
\* total_shares += SUBMITTED_SHARE_COUNTER.swap(0, SeqCst) as u128
HashrateMeterStep ==
    /\ reports < MaxReports
    /\ total_shares' = total_shares + share_counter
    /\ share_counter' = swap(share_counter, 0)
    /\ reports' = reports + 1
    /\ UNCHANGED <<accounted, wraps>>
    /\ UNCHANGED not_stat_vars

StatNext ==
    \/ \E d \in Difficulties : AccountSolution(d)
    \/ HashrateMeterStep

StatStart ==
    /\ HubInit
    /\ midstates = NEW_MIDSTATES
    /\ SolverInit
    /\ DevIdle
    /\ EngineIdle
    /\ ChanInit
    /\ SolInit
    /\ StatInit
    /\ ShareInit
    /\ RegInit

StatSpec == StatStart /\ [][StatNext]_vars

(* ------------------------ reading the history ------------------------- *)

Works == DOMAIN emitted

\* The versions of the i-th work's midstates, as a set.
VersionSet(i) == {emitted[i].versions[n] : n \in DOMAIN emitted[i].versions}

\* The new-job transition the i-th work belongs to: the number of works up
\* to it that were generated with new_job set.
Adoption(i) == Cardinality({k \in 1 .. i : emitted[k].new_job})

\* The position of the i-th work among the works of its adoption.
IndexInAdoption(i) ==
    Cardinality({k \in 1 .. i : Adoption(k) = Adoption(i)})

\* The three fields of a version: the bits below the mining mask, the 16
\* bits of the mask, and the bits above it.
MaskUnit == Pow2(SHIFT)

MaskSpan == Pow2(16)

HighUnit == Pow2(SHIFT + 16)

LowBits(v) == v % MaskUnit

MaskBits(v) == (v \div MaskUnit) % MaskSpan

HighBits(v) == v \div HighUnit

\* v & ~0x1fffe000, from the fields.
ClearMaskBits(v) == HighBits(v) * HighUnit + LowBits(v)

\* The senders between the two halves of send(): an event still to come.
PendingNotify == Cardinality({s \in Senders : sender_pc[s] = "notify"})

(* ------------------------------- claims ------------------------------- *)

\* C1 (as stated): no (job, version) pair is emitted twice: any two works
\* of the generator that reference the same job have disjoint version sets.
C1_NoPairTwice ==
    \A a, b \in Works :
        (a < b /\ emitted[a].job = emitted[b].job)
            => VersionSet(a) \cap VersionSet(b) = {}

\* C1 (amended): any two works generated within one adoption of a job,
\* that is between two consecutive new-job transitions, have disjoint
\* version sets.
C1_DisjointWithinAdoption ==
    \A a, b \in Works :
        (a < b /\ Adoption(a) = Adoption(b))
            => VersionSet(a) \cap VersionSet(b) = {}

\* Three works with midstates were generated within one adoption.
C1_Witness ==
    \E a, b, c \in Works :
        /\ a < b /\ b < c
        /\ Adoption(a) = Adoption(c)
        /\ VersionSet(a) # {} /\ VersionSet(b) # {} /\ VersionSet(c) # {}

\* C2: every work references the job that is the generator's current job
\* when its versions are rolled, and all works of one adoption reference
\* the same job.
C2_WorkReferencesCurrentJob ==
    /\ \A i \in Works : emitted[i].job = emitted[i].cur
    /\ \A a, b \in Works :
           Adoption(a) = Adoption(b) => emitted[a].job = emitted[b].job

\* Two works of one job were followed by a work of another job.
C2_Witness ==
    \E a, b, c \in Works :
        /\ a < b /\ b < c
        /\ Adoption(a) = Adoption(b)
        /\ Adoption(b) # Adoption(c)
        /\ emitted[b].job # emitted[c].job

\* C3: every work generate() returns carries exactly M midstates.
C3_ExactlyMMidstates ==
    \A i \in Works : Len(emitted[i].versions) = midstates

\* C4: when next_version + M overflows the counter, the generator empties
\* the slot and its current job; and while the slot has been cleared and
\* not published to since, no generate() call returns a work.
C4_ClearThenBlock ==
    [][ /\ (pc = "roll" /\ ~new_job /\ next_version + midstates > U16_MAX
              /\ pc' = "idle")
           => (channel' = None /\ current' = None /\ cleared')
        /\ (cleared /\ cleared') => emitted' = emitted
        /\ (cleared /\ pc' = "roll") => ~cleared' ]_vars

\* After the clear, the next generate() call waits for the new-job event
\* with the event stream open.
C4_Witness ==
    /\ cleared
    /\ pc = "wait"
    /\ events = 0
    /\ ~Closed

\* C5: the first work of an adoption uses counters [0, M) and leaves
\* next_version = M; the k-th work of the adoption uses exactly the
\* counters [(k-1)*M, k*M).
C5_AdjacentBlocks ==
    /\ \A i \in Works :
           LET k == IndexInAdoption(i)
           IN  [n \in DOMAIN emitted[i].versions |->
                    MaskBits(emitted[i].versions[n])]
               = Range((k - 1) * midstates, k * midstates)
    /\ (emitted # <<>> /\ emitted[Len(emitted)].new_job /\ pc = "idle")
           => next_version = midstates

C7_VersionLayout ==
    /\ \A i \in Works :
           LET first == (IndexInAdoption(i) - 1) * midstates
               jv == version(emitted[i].job)
           IN  \A n \in DOMAIN emitted[i].versions :
                   LET v == emitted[i].versions[n]
                       c == first + n - 1
                   IN  /\ LowBits(v) = LowBits(jv)
                       /\ HighBits(v) = HighBits(jv)
                       /\ MaskBits(v) = c
                       /\ v = ClearMaskBits(jv) + c * MaskUnit
    /\ \A i \in Works :
           (version(emitted[i].job) = 536870912 /\ midstates = 4)
               => /\ IndexInAdoption(i) = 1
                     => emitted[i].versions
                            = <<536870912, 536879104, 536887296, 536895488>>
                  /\ (IndexInAdoption(i) = 2 /\ emitted[i].versions # <<>>)
                     => emitted[i].versions
                            = <<536903680, 536911872, 536920064, 536928256>>

\* The second work of a job with version 0x20000000 at M = 4 was generated,
\* and so was a second work of the job with version 0x3fffffff.
C7_Witness ==
    /\ midstates = 4
    /\ \E i \in Works :
           /\ IndexInAdoption(i) = 2
           /\ emitted[i].versions
                  = <<536903680, 536911872, 536920064, 536928256>>
    /\ \E i \in Works :
           /\ IndexInAdoption(i) = 2
           /\ version(emitted[i].job) = 1073741823
           /\ emitted[i].versions # <<>>

\* C8: a generate() call that finds the event stream closed while it waits
\* for a job returns None.
C8_ClosedReturnsNone ==
    stream_end => (pc # "panicked" /\ (pc = "idle" => result = "None"))

\* C9: a send() replaces the slot content with its job and queues no event
\* itself; it owes exactly one event if and only if the slot was empty just
\* before, and every event queued pays one such debt.
C9_EventIffSlotWasEmpty ==
    [][ /\ \A s \in Senders, j \in Jobs :
               SendReplace(s, j)
                   => /\ channel' = j
                      /\ events' = events
                      /\ PendingNotify' =
                             PendingNotify + (IF channel = None THEN 1 ELSE 0)
        /\ events' > events
               => (events' = events + 1 /\ PendingNotify' = PendingNotify - 1)
        /\ events_sent' + PendingNotify' = empty_sends' ]_vars

\* One send found the slot empty and queued its event; a later send found
\* it full and queued none.
C9_Witness ==
    /\ sends >= 2
    /\ empty_sends = 1
    /\ events_sent = 1
    /\ PendingNotify = 0
    /\ channel # None

\* C10: whenever the generator holds a current job, or has taken a new-job
\* event and is about to read the slot, the slot is non-empty; get_job
\* finds the slot empty only after the event stream has ended.
C10_SlotNonEmpty ==
    /\ current # None => channel # None
    /\ (pc = "lock" /\ ~stream_end) => channel # None
    /\ pc = "panicked" => stream_end

\* The generator has taken the event of one sender while another sender
\* has replaced the slot in between.
C10_Witness ==
    /\ pc = "lock"
    /\ ~stream_end
    /\ current = None
    /\ sends >= 2
    /\ events_sent = 1

\* The call after the one that exhausts a job rolled with M = 4: the 16385th
\* with a 16-bit counter (calls 1..16383 roll [0, 65532), the 16384th finds
\* that continuing would overflow).
ExhaustedCall == U16_MAX \div DEFAULT_MIDSTATE_COUNT + 2

\* C11: with M = 4 on a single job that is never superseded, the call
\* number ExhaustedCall either has returned a work rolling the last M
\* counters below the counter's range end, or the job has been cleared
\* (slot and current both empty) and the call has not completed.
C11_LastBlockOrBlocked ==
    (midstates = DEFAULT_MIDSTATE_COUNT /\ sends = 1 /\ calls = ExhaustedCall)
        => \/ /\ Len(emitted) = ExhaustedCall
              /\ Len(emitted[ExhaustedCall].versions) = DEFAULT_MIDSTATE_COUNT
              /\ \A k \in 1 .. DEFAULT_MIDSTATE_COUNT :
                     emitted[ExhaustedCall].versions[k] =
                         emitted[ExhaustedCall].versions[1]
                         + (k - 1) * MaskUnit
              /\ emitted[ExhaustedCall].start =
                     U16_MAX + 1 - DEFAULT_MIDSTATE_COUNT
           \/ /\ Len(emitted) = ExhaustedCall - 1
              /\ channel = None
              /\ current = None
              /\ pc # "idle"
              /\ pc # "roll"

\* The call after the exhausting one is waiting for a new-job event on the
\* single job published once.
C11_Witness ==
    /\ midstates = DEFAULT_MIDSTATE_COUNT
    /\ sends = 1
    /\ calls = ExhaustedCall
    /\ pc = "wait"
    /\ Len(emitted) = ExhaustedCall - 1
    /\ emitted[ExhaustedCall - 1].versions = <<>>

(* --------------------- reading the adapter's history ------------------ *)

\* The next() results that carry a solution.
Solutions == {i \in DOMAIN returned : returned[i].kind = "Some"}

\* A device read has just ended with a nonce and next() has returned.
NonceReturned ==
    /\ spc = "read"
    /\ spc' = "idle"
    /\ Len(returned') = Len(returned) + 1
    /\ returned'[Len(returned')].kind = "Some"

\* C12: when a nonce is read while prev_work is set, next() returns a
\* solution for the previous Assignment with the solution_id saved with it,
\* and stashes a solution for curr_work with the same nonce and timestamp;
\* the following next() returns the stashed one.  When prev_work is not
\* set, the solution for curr_work is returned and nothing is stashed.
C12_Correlation ==
    [][ /\ NonceReturned =>
            LET out == returned'[Len(returned')].solution
            IN  IF prev_work # NoPrev
                THEN /\ out.work = prev_work.work
                     /\ out.solution_id = prev_work.solution_id
                     /\ next_solution' # NoSolution
                     /\ next_solution'.work = curr_work
                     /\ next_solution'.solution_id = solution_id
                     /\ next_solution'.nonce = out.nonce
                     /\ next_solution'.timestamp = out.timestamp
                ELSE /\ out.work = curr_work
                     /\ out.solution_id = solution_id
                     /\ next_solution' = NoSolution
        /\ (next_solution # NoSolution /\ next_calls' = next_calls + 1) =>
            /\ Len(returned') = Len(returned) + 1
            /\ returned'[Len(returned')].kind = "Some"
            /\ returned'[Len(returned')].solution = next_solution
      ]_vars

\* One nonce has been returned for the previous work, whose saved
\* solution_id is not 0, and the following next() has returned the stashed
\* solution for the current work.
C12_Witness ==
    \E i \in Solutions :
        /\ i + 1 \in Solutions
        /\ returned[i].solution.read = returned[i + 1].solution.read
        /\ returned[i + 1].call = returned[i].call + 1
        /\ returned[i].solution.work # returned[i + 1].solution.work
        /\ returned[i].solution.solution_id > 0
        /\ returned[i].solution.nonce = returned[i + 1].solution.nonce

\* C13: every returned solution references the Assignment that was
\* installed when its nonce was read, or the one installed immediately
\* before it; one nonce yields at most two solutions; the stash is empty
\* whenever the adapter is inside the loop, so a stashed solution is never
\* overwritten.
C13_OneDeepLookahead ==
    /\ \A i \in Solutions :
           LET s == returned[i].solution
               installed == reads[s.read].work
           IN  \E k \in DOMAIN written :
                   /\ written[k].work = installed
                   /\ \/ s.work = installed
                      \/ k > 1 /\ s.work = written[k - 1].work
    /\ \A n \in DOMAIN reads :
           Cardinality({i \in Solutions : returned[i].solution.read = n}) <= 2
    /\ spc \in {"loop", "read", "switch", "send"} => next_solution = NoSolution

\* A nonce read on the third Assignment after two timeouts has been
\* returned for the second one.
C13_Witness ==
    \E i \in Solutions :
        /\ reads[returned[i].solution.read].work = 3
        /\ returned[i].solution.work = 2
        /\ Len(written) = 3

\* C14: a next() call that finds a stashed solution returns it and empties
\* the stash, and does nothing else: no device read or write, no request
\* to the generator, no change of curr_work or solution_id.
C14_StashReturnedAtOnce ==
    [][ (next_solution # NoSolution /\ next_calls' = next_calls + 1) =>
            /\ returned' =
                   Append(returned, ReturnedSome(next_solution, next_calls'))
            /\ next_solution' = NoSolution
            /\ spc' = "idle"
            /\ UNCHANGED <<written, reads, produced, gen_ended, curr_work,
                           solution_id, stop_reason, work_start>>
      ]_vars

\* A stashed solution has been returned by a next() call, and the call
\* after it has entered the loop.
C14_Witness ==
    /\ spc = "loop"
    /\ \E i \in Solutions :
           /\ i > 1
           /\ returned[i].call = next_calls - 1
           /\ returned[i - 1].kind = "Some"
           /\ returned[i - 1].solution.read = returned[i].solution.read
           /\ returned[i - 1].call = next_calls - 2

\* The stop reason as a caller can obtain it: get_stop_reason's result
\* once the adapter is consumed, the stored one before.
Stored == IF spc = "consumed" THEN stop_result ELSE stop_reason

\* The next() call number c has returned None (or is about to leave the
\* loop on the stored error), and no call since has returned a solution.
EndedIn(c) ==
    /\ \A i \in DOMAIN returned :
           returned[i].call >= c => returned[i].kind = "None"
    /\ \/ \E i \in DOMAIN returned : returned[i].call = c
       \/ spc = "loop" /\ next_calls = c /\ stop_reason # "Ok"

\* C15: a failed write of work, a failed nonce read and a nonce read of
\* other than 4 bytes each store a Usb error in stop_reason, the next()
\* call they occur in returns None, and that error is what get_stop_reason
\* returns.
C15_UsbFailureStops ==
    /\ \A k \in DOMAIN written :
           ~written[k].ok =>
               /\ Stored = "Usb(cannot send work)"
               /\ EndedIn(written[k].call)
    /\ \A n \in DOMAIN reads :
           /\ reads[n].raw.kind = "Err" =>
                  /\ Stored = "Usb(cannot read nonce)"
                  /\ EndedIn(reads[n].call)
           /\ (reads[n].raw.kind = "Ok" /\ reads[n].raw.n # NONCE_SIZE) =>
                  /\ Stored = "Usb(read incorrect number of bytes)"
                  /\ EndedIn(reads[n].call)

\* A read of 3 bytes on the second Assignment has ended the iteration and
\* get_stop_reason has returned its error.
C15_Witness ==
    /\ spc = "consumed"
    /\ stop_result = "Usb(read incorrect number of bytes)"
    /\ Len(reads) = 2
    /\ reads[2].raw.n = NONCE_SIZE - 1
    /\ reads[2].work = 2
    /\ returned[Len(returned)].kind = "None"

\* C16: a device read that times out is no error: stop_reason stays Ok and
\* the adapter goes on to switch work; the switch saves curr_work with the
\* current solution_id as the previous work and asks the generator for the
\* next Assignment; the Assignment is stamped with work_start, written to
\* the device, installed as curr_work, and solution_id is reset to 0.
C16_TimeoutSwitchesWork ==
    [][ /\ (spc = "read" /\ reads'[Len(reads)].raw.kind = "Timeout") =>
               /\ stop_reason = "Ok"
               /\ stop_reason' = "Ok"
               /\ spc' = "switch"
               /\ UNCHANGED <<returned, written, curr_work, solution_id>>
        /\ (spc = "switch" /\ curr_work # NoWork) =>
               /\ prev_work' = [work |-> curr_work,
                                solution_id |-> solution_id]
               /\ curr_work' = NoWork
               /\ \/ /\ spc' = "send"
                     /\ produced' = produced + 1
                     /\ pending_work' = produced'
                     /\ UNCHANGED <<written, returned>>
                  \/ /\ spc' = "idle"
                     /\ gen_ended'
                     /\ UNCHANGED <<written, produced>>
        /\ (spc = "send" /\ spc' # "send") =>
               /\ work_start' = clock
               /\ written' = Append(written,
                                    [work |-> pending_work,
                                     ok |-> written'[Len(written')].ok,
                                     call |-> next_calls])
               /\ curr_work' = pending_work
               /\ solution_id' = 0
               /\ spc' = "loop"
      ]_vars

\* After a solution for the first Assignment, a read has timed out and the
\* second Assignment has been stamped, written and installed.
C16_Witness ==
    /\ spc = "loop"
    /\ stop_reason = "Ok"
    /\ Len(reads) = 2
    /\ reads[2].raw.kind = "Timeout"
    /\ reads[2].work = 1
    /\ prev_work = [work |-> 1, solution_id |-> 1]
    /\ curr_work = 2
    /\ solution_id = 0
    /\ work_start = clock
    /\ clock # 0
    /\ Len(written) = 2
    /\ written[2].work = 2
    /\ written[2].ok

\* C17: when the generator returns None, next() returns None in that step
\* without writing to the device, no read or write follows, and the stop
\* reason, stored or obtained by get_stop_reason, is Ok.
C17_GeneratorEndStops ==
    /\ [](gen_ended => Stored = "Ok")
    /\ [][ /\ (spc = "switch" /\ gen_ended') =>
                  /\ returned' = Append(returned, ReturnedNone)
                  /\ spc' = "idle"
                  /\ UNCHANGED <<written, reads, stop_reason>>
           /\ gen_ended => UNCHANGED <<written, reads>>
         ]_vars

\* The generator has ended after a work was written, next() has returned
\* None and get_stop_reason has returned Ok.
C17_Witness ==
    /\ gen_ended
    /\ spc = "consumed"
    /\ stop_result = "Ok"
    /\ Len(written) = 1
    /\ Len(reads) = 1
    /\ returned[Len(returned)].kind = "None"

\* C18: the timeout of every device read is MAX_READ_TIME less the time
\* elapsed since work_start, clamped from below to WAIT_TIMEOUT, hence
\* never smaller than WAIT_TIMEOUT.
C18_TimeoutClamped ==
    \A n \in DOMAIN reads :
        /\ reads[n].timeout =
               (IF MAX_READ_TIME - reads[n].elapsed >= WAIT_TIMEOUT_MS
                THEN MAX_READ_TIME - reads[n].elapsed
                ELSE WAIT_TIMEOUT_MS)
        /\ reads[n].timeout >= WAIT_TIMEOUT_MS

\* C19: for each Assignment the solution_ids of the returned solutions
\* count up from 0 in the order they are returned, the solution attributed
\* to the previous Assignment included; solution_id goes back to 0 exactly
\* in the step that installs a new Assignment.
C19_SolutionIdsPerWork ==
    /\ [](\A i \in Solutions :
              returned[i].solution.solution_id =
                  Cardinality({j \in Solutions :
                                   /\ j < i
                                   /\ returned[j].solution.work =
                                          returned[i].solution.work}))
    /\ [][ /\ (spc = "send" /\ spc' = "loop") =>
                  (solution_id' = 0 /\ curr_work' # curr_work)
           /\ solution_id' < solution_id => (spc = "send" /\ spc' = "loop")
           /\ (solution_id' # solution_id /\ spc # "send") =>
                  solution_id' = solution_id + 1
         ]_vars

\* The first Assignment has solutions 0 and 1, the second of them found
\* after the switch to the second Assignment, whose own solution has id 0.
C19_Witness ==
    /\ Len(returned) = 3
    /\ returned[1].solution.work = 1
    /\ returned[1].solution.solution_id = 0
    /\ returned[2].solution.work = 1
    /\ returned[2].solution.solution_id = 1
    /\ returned[3].solution.work = 2
    /\ returned[3].solution.solution_id = 0
    /\ returned[2].solution.read = returned[3].solution.read

\* C20: the Assignments are written to the device in the order the
\* generator returned them, each once, and the generator is asked for the
\* next Assignment only when every Assignment it returned has been written:
\* at most one is ever outstanding, the one about to be written.
C20_WrittenInGeneratorOrder ==
    /\ \A k \in DOMAIN written : written[k].work = k
    /\ IF spc = "send"
       THEN produced = Len(written) + 1 /\ pending_work = produced
       ELSE produced = Len(written) /\ pending_work = NoWork
    /\ spc = "switch" => produced = Len(written)

\* Three Assignments have been written, the third being asked for after
\* the second was written.
C20_Witness ==
    /\ Len(written) = 3
    /\ produced = 3
    /\ written[1].ok /\ written[2].ok /\ written[3].ok
    /\ curr_work = 3
    /\ spc = "loop"

\* C21: a clock that is behind work_start when the elapsed time is
\* computed is fatal: the step stores the Timer error, starts no device
\* read and returns None from next(); the error stays stored and no later
\* call returns a solution.
C21_ClockRegressionFatal ==
    /\ [](Stored = "Timer(cannot measure elapsed time of work solution)" =>
              /\ Len(returned) > 0
              /\ returned[Len(returned)].kind = "None")
    /\ [][ /\ (/\ spc = "loop"
               /\ stop_reason = "Ok"
               /\ curr_work # NoWork
               /\ clock < work_start
               /\ clock' = clock) =>
                  /\ stop_reason' =
                         "Timer(cannot measure elapsed time of work solution)"
                  /\ returned' = Append(returned, ReturnedNone)
                  /\ spc' = "idle"
                  /\ UNCHANGED <<reads, written, curr_work, solution_id>>
           /\ stop_reason =
                  "Timer(cannot measure elapsed time of work solution)" =>
                  /\ UNCHANGED <<reads, written>>
                  /\ \/ stop_reason' = stop_reason
                     \/ spc' = "consumed"
         ]_vars

\* The first work was sent with the clock ahead, the clock stepped back,
\* the wait stored the Timer error without a read and get_stop_reason has
\* returned it.
C21_Witness ==
    /\ spc = "consumed"
    /\ stop_result = "Timer(cannot measure elapsed time of work solution)"
    /\ reads = <<>>
    /\ Len(written) = 1
    /\ clock < work_start
    /\ returned[Len(returned)].kind = "None"

\* C22 as stated: a solution_id overflow and a short read both panic the
\* task and neither is stored in stop_reason.
C22_ContractViolationsPanic ==
    \A n \in DOMAIN reads :
        (reads[n].raw.kind = "Ok" /\ reads[n].raw.n # NONCE_SIZE) =>
            /\ spc = "panicked"
            /\ stop_reason = "Ok"

\* C22 as the code has it: a nonce read with solution_id at its largest
\* value panics the task (nothing is returned, nothing is stored); a read
\* of other than 4 bytes does not panic, it is stored in stop_reason as a
\* Usb error and next() returns None.
C22_OverflowPanicsShortReadStored ==
    [][ /\ (/\ spc = "read"
            /\ reads'[Len(reads)].raw.kind = "Ok"
            /\ reads'[Len(reads)].raw.n = NONCE_SIZE
            /\ solution_id = U32_MAX) =>
               /\ spc' = "panicked"
               /\ UNCHANGED <<returned, stop_reason, solution_id,
                              next_solution>>
        /\ (/\ spc = "read"
            /\ reads'[Len(reads)].raw.kind = "Ok"
            /\ reads'[Len(reads)].raw.n # NONCE_SIZE) =>
               /\ spc' = "idle"
               /\ stop_reason' = "Usb(read incorrect number of bytes)"
               /\ returned' = Append(returned, ReturnedNone)
        /\ spc = "panicked" => UNCHANGED solver_vars
      ]_vars

\* The task has panicked on the nonce after the last solution_id.
C22_Witness ==
    /\ spc = "panicked"
    /\ solution_id = U32_MAX
    /\ stop_reason = "Ok"
    /\ Len(reads) = U32_MAX + 1
    /\ reads[Len(reads)].raw.n = NONCE_SIZE

(* ------------------------ reading init's history ---------------------- *)

\* The calls init is to make, in order, on this device: the driver is
\* looked for only where detaching is supported, and detached only when it
\* is active.
InitOrder ==
    <<"reset">>
        \o (IF supports_detach
            THEN <<"kernel_driver_active">>
                     \o (IF driver_active
                         THEN <<"detach_kernel_driver">>
                         ELSE <<>>)
            ELSE <<>>)
        \o <<"set_active_configuration", "enable UART", "set data control",
             "set baud rate">>

\* The Usb error that names a call.
InitErrorOf(call) ==
    CASE call = "reset" -> "Usb(cannot reset device)"
      [] call = "kernel_driver_active" -> "Usb(cannot detect kernel driver)"
      [] call = "detach_kernel_driver" -> "Usb(cannot detach kernel driver)"
      [] call = "set_active_configuration" ->
             "Usb(cannot set active configuration)"
      [] call = "enable UART" -> "Usb(cannot enable UART)"
      [] call = "set data control" -> "Usb(cannot set data control)"
      [] call = "set baud rate" -> "Usb(cannot set baud rate)"

\* The positions of InitOrder whose call fails on this device.
FailingAt == {k \in DOMAIN InitOrder : InitOrder[k] \in failing}

\* C23: init makes its calls in the order reset, (kernel driver detection
\* and detachment), set configuration, enable UART, set data control, set
\* baud rate; the first call that fails ends init with the Usb error
\* naming that call and no later call is made; init returns Ok only when
\* every call succeeded.
C23_InitOrderAndAbort ==
    /\ Len(init_calls) <= Len(InitOrder)
    /\ \A k \in DOMAIN init_calls : init_calls[k] = InitOrder[k]
    /\ \A k \in DOMAIN init_calls :
           k < Len(init_calls) => init_calls[k] \notin failing
    /\ init_pc = "returned" =>
           IF FailingAt = {}
           THEN init_result = "Ok" /\ init_calls = InitOrder
           ELSE LET first == CHOOSE k \in FailingAt :
                                 \A m \in FailingAt : k <= m
                IN  /\ Len(init_calls) = first
                    /\ init_result = InitErrorOf(InitOrder[first])
    /\ init_pc # "returned" => init_result = "-"
    /\ init_result = "Ok" => \A k \in DOMAIN InitOrder : k \notin FailingAt

\* Init has stopped at the UART call, which fails, on a device whose
\* driver was detached; the two later calls, which would fail too, were
\* not made.
C23_Witness ==
    /\ init_pc = "returned"
    /\ init_result = "Usb(cannot enable UART)"
    /\ failing = {"enable UART", "set data control", "set baud rate"}
    /\ init_calls = <<"reset", "kernel_driver_active",
                      "detach_kernel_driver", "set_active_configuration",
                      "enable UART">>

(* ----------------------- reading the engine log ----------------------- *)

IsNextWork(x) == x.op = "next_work" /\ x.engine = TestedEngine

\* The next_work() calls made on the tested engine, in order.
NextWorkCalls == SelectSeq(eng_log, IsNextWork)

\* The number of next_work() calls among the first i entries of the log.
NextWorkBefore(i) ==
    Cardinality({j \in 1 .. i - 1 : IsNextWork(eng_log[j])})

\* C27: a TestWorkEngine over N blocks answers its next_work() calls with
\* Continue and the k-th block for k < N, Break and the N-th block for the
\* N-th call, and Exhausted with no work on every later call.
C27_TestEngineSequence ==
    engines[TestedEngine].kind = "test" =>
        LET N == engines[TestedEngine].blocks
        IN  \A k \in DOMAIN NextWorkCalls :
                /\ k < N => /\ NextWorkCalls[k].state = "Continue"
                            /\ NextWorkCalls[k].work = k
                /\ k = N => /\ NextWorkCalls[k].state = "Break"
                            /\ NextWorkCalls[k].work = N
                /\ k > N => /\ NextWorkCalls[k].state = "Exhausted"
                            /\ NextWorkCalls[k].work = NoWork

\* A TestWorkEngine over three blocks has answered Continue, Continue,
\* Break, Exhausted, Exhausted.
C27_Witness ==
    /\ engines[TestedEngine].kind = "test"
    /\ engines[TestedEngine].blocks = 3
    /\ Len(NextWorkCalls) = 5
    /\ NextWorkCalls[3].state = "Break"
    /\ NextWorkCalls[5].state = "Exhausted"

\* C28: a OneWorkEngine answers its first next_work() with Break and the
\* Assignment it was built from and every later one with Exhausted;
\* is_exhausted() is false before that first call and true after it.
C28_OneWorkEngineOnce ==
    /\ [](engines[TestedEngine].kind = "one" =>
              /\ \A k \in DOMAIN NextWorkCalls :
                     IF k = 1
                     THEN NextWorkCalls[k].state = "Break"
                     ELSE /\ NextWorkCalls[k].state = "Exhausted"
                          /\ NextWorkCalls[k].work = NoWork
              /\ \A i \in DOMAIN eng_log :
                     eng_log[i].op = "is_exhausted" =>
                         eng_log[i].state =
                             (IF NextWorkBefore(i) = 0 THEN "false"
                                                       ELSE "true")
              /\ engines[TestedEngine].work = NoWork
                     <=> Len(NextWorkCalls) > 0)
    /\ [][ (/\ engines[TestedEngine].kind = "one"
            /\ NextWorkCalls = <<>>
            /\ NextWorkCalls' # <<>>) =>
               /\ engines[TestedEngine].work # NoWork
               /\ NextWorkCalls'[1].work = engines[TestedEngine].work
         ]_vars

\* A OneWorkEngine built from the second block has been asked
\* is_exhausted, next_work, is_exhausted, next_work.
C28_Witness ==
    /\ engines[TestedEngine].kind = "one"
    /\ Len(eng_log) = 4
    /\ eng_log[1].state = "false"
    /\ eng_log[2].state = "Break"
    /\ eng_log[2].work = 2
    /\ eng_log[3].state = "true"
    /\ eng_log[4].state = "Exhausted"

\* How often engine e was notified on the reschedule channel.
NotifiedCount(e) == Cardinality({i \in DOMAIN notified : notified[i] = e})

\* C24: an engine that became exhausted while the receiver held it has
\* been notified on the reschedule channel exactly once, however many
\* get_engine and next_work calls followed; an engine that still has work
\* has not been notified at all.
C24_OneNotificationPerExhaustion ==
    \A e \in Engines :
        NotifiedCount(e) = IF Spent(engines[e]) THEN 1 ELSE 0

\* Two engines were exhausted one after the other, one of them over
\* several next_work calls.
C24_Witness ==
    /\ Len(notified) >= 2
    /\ \E i \in DOMAIN eng_log : eng_log[i].state = "Continue"
    /\ \E i \in DOMAIN eng_log : eng_log[i].state = "Break"

\* C25: get_engine never returns an engine that is exhausted when it
\* returns; it returns another engine than the time before only when that
\* one is exhausted; and while the latest broadcast engine is exhausted it
\* waits, and leaves the wait only on a fresh broadcast, with the latest
\* engine.
C25_GetEngineStableAndFresh ==
    /\ [](/\ \A i \in DOMAIN got :
                /\ ~got[i].spent
                /\ (got[i].prev # NoEngine /\ got[i].engine # got[i].prev)
                       => got[i].prev_spent
          /\ (bpc = "wait" /\ ~fresh)
                 => (slot = NoEngine \/ Spent(engines[slot])))
    /\ [][(bpc = "wait" /\ bpc' # "wait")
              => (fresh /\ bpc' = "work" /\ held' = slot)]_vars

\* get_engine returned the same engine twice, and later another one after
\* the first was exhausted.
C25_Witness ==
    /\ \E i \in DOMAIN got : got[i].prev = got[i].engine
    /\ \E i \in DOMAIN got :
          got[i].prev # NoEngine /\ got[i].engine # got[i].prev

\* C26: when the backend asks for the engine again after exhausting the one
\* it held, that engine's notification has already been sent; and with an
\* orchestrator that answers each notification with a broadcast of an
\* engine that has work, a waiting get_engine returns in the end.
C26_RescheduleNeverStarves ==
    /\ []((bpc \in {"get", "wait"} /\ held # NoEngine
             /\ Spent(engines[held]))
            => NotifiedCount(held) >= 1)
    /\ ((bpc = "wait" /\ broadcasts < MaxEngines) ~> (bpc = "work"))

\* The backend waits on an exhausted engine whose notification the
\* orchestrator has not received yet.
C26_Witness ==
    /\ bpc = "wait"
    /\ held # NoEngine
    /\ reschedule # <<>>
    /\ broadcasts < MaxEngines

\* The solutions of producer p in seq, in seq's order.
OfProducer(seq, p) == SelectSeq(seq, LAMBDA s : s.producer = p)

\* The first k solutions of producer p in the order it sent them.
SentBy(p, k) == [i \in 1 .. k |-> [producer |-> p, n |-> i]]

\* C29: the solutions received from one producer are the first ones it
\* sent, in the order it sent them, and received and queued solutions
\* together are exactly the ones sent, each once; receive() returns None
\* only on the empty queue with every sender dropped; every solution sent
\* is received in the end, and once the senders are dropped and the queue
\* is drained the collection loop ends.
C29_SolutionsInOrderOnce ==
    /\ [](/\ \A p \in Producers :
                /\ OfProducer(sol_received, p)
                       = SentBy(p, Len(OfProducer(sol_received, p)))
                /\ OfProducer(sol_received \o sol_queue, p)
                       = SentBy(p, sol_sent[p])
          /\ sol_done => (sol_queue = <<>> /\ sol_senders = {}))
    /\ []<>(sol_queue = <<>>)
    /\ ((sol_senders = {}) ~> sol_done)

\* Two producers' solutions were received interleaved and the collection
\* ended.
C29_Witness ==
    /\ sol_done
    /\ Len(sol_received) >= 3
    /\ \E i \in 1 .. Len(sol_received) - 2 :
          /\ sol_received[i].producer # sol_received[i + 1].producer
          /\ sol_received[i + 1].producer # sol_received[i + 2].producer

RECURSIVE Sum(_)
\* The sum of a sequence of numbers.
Sum(seq) == IF seq = <<>> THEN 0 ELSE Head(seq) + Sum(Tail(seq))

\* C30 as stated: the reporter's total plus the counter is the sum of the
\* difficulties accounted so far.
C30_NoShareLost == total_shares + share_counter = Sum(accounted)

\* C30 amended: the reporter's total plus the counter is the sum of the
\* difficulties accounted so far less 2^64 for every fetch_add that wrapped
\* the counter; so no share is lost or counted twice as long as the
\* difficulties accounted between two swaps sum to at most u64::MAX.
C30_NoShareLostUnlessWrapped ==
    total_shares + share_counter + wraps * (U64_MAX + 1) = Sum(accounted)

\* Solutions were accounted before, between and after two swaps that found
\* shares, and the counter never wrapped.
C30_Witness ==
    /\ wraps = 0
    /\ reports >= 2
    /\ total_shares > 0
    /\ share_counter > 0
    /\ Len(accounted) >= 3

\* C33: the clear at exhaustion takes out of the slot only the job the
\* generator was rolling, never another job published since get_job read
\* the slot (so that a job published last is adopted in the end).
C33_ClearTakesOnlyRolledJob ==
    [][(pc = "roll" /\ channel # None /\ channel' = None)
           => channel = job]_vars

\* C35: while the generator is alive the event queue holds at most one
\* event, an event is queued only while the slot holds a job and the
\* generator has no current job, and no send() fails to queue its event.
C35_AtMostOneEvent ==
    pc # "panicked"
        => /\ events <= 1
           /\ events >= 1 => (channel # None /\ current = None)
           /\ \A s \in Senders : sender_pc[s] # "panicked"

\* An event is queued for a job published after an exhaustion clear, with
\* another send between its two halves.
C35_Witness ==
    /\ events = 1
    /\ empty_sends >= 2
    /\ \E i \in Works : emitted[i].versions = <<>>
    /\ pc = "wait"

\* C36: a slot read that finds the very job the generator is rolling is no
\* new-job transition, and the work that follows continues from the
\* previous next_version with base_version unchanged; the slot read is a
\* new-job transition only when the generator has no current job or the
\* slot holds another job object.
C36_IdentityOnly ==
    [][ /\ (pc = "lock" /\ pc' = "roll")
           => /\ new_job' <=> (current = None \/ channel # current)
              /\ ~new_job' => (current' = current /\ job' = current)
        /\ (pc = "roll" /\ pc' = "idle" /\ ~new_job)
           => /\ base_version' = base_version
              /\ emitted'[Len(emitted')].start = next_version
              /\ next_version + midstates <= U16_MAX
                     => next_version' = next_version + midstates ]_vars

\* The job being rolled was published again, and the work after that
\* continued the rolling.
C36_Witness ==
    /\ sends >= 2
    /\ channel # None
    /\ channel = current
    /\ \E i \in Works :
          /\ i > 1
          /\ ~emitted[i].new_job
          /\ emitted[i].start = midstates
          /\ emitted[i].versions # <<>>
    /\ empty_sends = 1

\* The first counter the generator does not emit for a job:
\* floor(u16::MAX / M) * M.
CounterLimit == (U16_MAX \div midstates) * midstates

\* The counters of the i-th work's midstates, in order.
Counters(i) ==
    [n \in DOMAIN emitted[i].versions |-> MaskBits(emitted[i].versions[n])]

\* C34: within one adoption of a job the works carry the counters in
\* ascending blocks of M from 0, every counter is below
\* floor(u16::MAX / M) * M, and the call that clears the job comes when
\* exactly the counters below that limit have been emitted.
C34_CountersUpToLimit ==
    \A i \in Works :
        LET first == (IndexInAdoption(i) - 1) * midstates
        IN  /\ Counters(i) \in {<<>>, Range(first, first + midstates)}
            /\ \A n \in DOMAIN Counters(i) : Counters(i)[n] < CounterLimit
            /\ (Counters(i) = <<>>) <=> (first = CounterLimit)

\* A job was rolled at one midstate per work until the call that cleared
\* it.
C34_Witness ==
    /\ midstates = NEW_MIDSTATES
    /\ cleared
    /\ \E i \in Works :
          /\ IndexInAdoption(i) = U16_MAX + 1
          /\ Counters(i) = <<>>
          /\ Counters(i - 1) = <<U16_MAX - 1>>

C37_ErrorSticks ==
    /\ [](stop_reason # "Ok" => next_solution = NoSolution)
    /\ [][(stop_reason # "Ok" /\ spc' # "consumed")
              => /\ stop_reason' = stop_reason
                 /\ reads' = reads
                 /\ written' = written
                 /\ produced' = produced
                 /\ gen_ended' = gen_ended
                 /\ returned' # returned
                        => /\ Len(returned') = Len(returned) + 1
                           /\ returned'[Len(returned')].kind = "None"]_vars

\* After a failed read stored its error, two more next() calls returned
\* None.
C37_Witness ==
    /\ stop_reason = "Usb(cannot read nonce)"
    /\ spc = "idle"
    /\ Len(returned) >= 3
    /\ returned[Len(returned)].kind = "None"
    /\ returned[Len(returned) - 1].kind = "None"
    /\ returned[Len(returned) - 2].kind = "None"
    /\ returned[Len(returned)].call = returned[Len(returned) - 2].call + 2

\* C31: over the fixture engine and a device that answers every work
\* written with the nonce of its block and never fails, the solutions the
\* adapter returns whose hash is a fixture block's are those of the blocks
\* in fixture order, each once; in the end every block's solution has been
\* returned and get_stop_reason gives Ok.
C31_FixtureBlocksSolved ==
    /\ [](/\ Solved = [i \in 1 .. Len(Solved) |-> i]
          /\ stop_reason = "Ok")
    /\ <>(/\ spc = "consumed"
          /\ stop_result = "Ok"
          /\ Solved = [i \in Blocks |-> i])

\* Every block was found solved, the later ones by the stashed solution
\* that follows the one made for the previous work.
C31_Witness ==
    /\ spc = "consumed"
    /\ stop_result = "Ok"
    /\ Len(Solved) = NumBlocks
    /\ Len(ReturnedSolutions) = 2 * NumBlocks - 1
    /\ hash(ReturnedSolutions[2]) \notin {block_hash(k) : k \in Blocks}

(* ------------------------------ Registry ------------------------------ *)

\* The midstate indices of problems and solutions.
MidstateIdxs == 0 .. MaxMidstateIdx

\* Problem::new(model_solution, target_midstate) over the fixture blocks.
Problems ==
    [model_solution : Blocks, target_midstate : MidstateIdxs]

\* Solution::new(solution, midstate_idx) over the fixture blocks.
RegSolutions == [solution : Blocks, midstate_idx : MidstateIdxs]

\* SolutionKey::from_problem
from_problem(p) ==
    [hash |-> block_hash(p.model_solution),
     midstate_idx |-> p.target_midstate]

\* SolutionKey::from_solution
from_solution(s) ==
    [hash |-> block_hash(s.solution), midstate_idx |-> s.midstate_idx]

\* SolutionState::new
NewSolutionState(p) == [solved |-> FALSE, problem |-> p]

\* HashMap::insert: the entry of key k is (re)placed.
insert(map, k, v) ==
    [x \in DOMAIN map \cup {k} |-> IF x = k THEN v ELSE map[x]]

\* A bug that inserts the problem whether or not its key is registered.
add_problem_overwrites(map, p) ==
    [map |-> insert(map, from_problem(p), NewSolutionState(p)),
     result |-> from_problem(p) \notin DOMAIN map]

\* Registry::add_problem: the map afterwards and the value returned.
add_problem(map, p) ==
    LET key == from_problem(p)
    IN  IF key \in DOMAIN map
        THEN [map |-> map, result |-> FALSE]
        ELSE [map |-> insert(map, key, NewSolutionState(p)),
              result |-> TRUE]

\* Registry::add_solution: the map afterwards.
add_solution(map, s) ==
    LET key == from_solution(s)
    IN  IF key \in DOMAIN map
        THEN [map EXCEPT ![key].solved = TRUE]
        ELSE map

\* Registry::check_everything_solved: the value returned.
check_everything_solved(map) == \A k \in DOMAIN map : map[k].solved

\* registry.add_problem(p)
AddProblem(p) ==
    /\ reg_ops < MaxRegOps
    /\ LET r == add_problem(reg_map, p)
       IN  /\ reg_map' = r.map
           /\ reg_last' = [op |-> "add_problem", key |-> <<from_problem(p)>>,
                           result |-> r.result]
    /\ reg_ops' = reg_ops + 1
    /\ UNCHANGED reg_received
    /\ UNCHANGED not_reg_vars

\* registry.add_solution(s)
AddSolution(s) ==
    /\ reg_ops < MaxRegOps
    /\ reg_map' = add_solution(reg_map, s)
    /\ reg_last' = [op |-> "add_solution", key |-> <<from_solution(s)>>,
                    result |-> FALSE]
    /\ reg_ops' = reg_ops + 1
    /\ reg_received' =
           IF from_solution(s) \in DOMAIN reg_map
           THEN reg_received \cup {from_solution(s)}
           ELSE reg_received
    /\ UNCHANGED not_reg_vars

\* registry.check_everything_solved(false)
CheckEverythingSolved ==
    /\ reg_ops < MaxRegOps
    /\ reg_last' = [op |-> "check_everything_solved", key |-> <<>>,
                    result |-> check_everything_solved(reg_map)]
    /\ reg_ops' = reg_ops + 1
    /\ UNCHANGED <<reg_map, reg_received>>
    /\ UNCHANGED not_reg_vars

RegNext ==
    \/ \E p \in Problems : AddProblem(p)
    \/ \E s \in RegSolutions : AddSolution(s)
    \/ CheckEverythingSolved

\* A registry beside an idle hub and adapter.
RegStart ==
    /\ HubInit
    /\ midstates = NEW_MIDSTATES
    /\ SolverInit
    /\ ExtIdle

RegSpec == RegStart /\ [][RegNext]_vars

\* The next_work() calls on the shared engine that returned work.
Handed == {i \in DOMAIN eng_log : eng_log[i].work # NoWork}

\* C38: with several consumers calling next_work() on one engine, no
\* Assignment is handed out twice, at most one call returns Break, and no
\* call returns work after a call has returned Break.
C38_SharedEngineHandsOutOnce ==
    /\ \A i, j \in Handed : eng_log[i].work = eng_log[j].work => i = j
    /\ \A i, j \in DOMAIN eng_log :
           (eng_log[i].state = "Break" /\ eng_log[j].state = "Break") => i = j
    /\ \A i, j \in DOMAIN eng_log :
           (eng_log[i].state = "Break" /\ i < j) => eng_log[j].work = NoWork

\* Two consumers took work of a TestWorkEngine, one of them the last, and
\* the other was told Exhausted afterwards, having waited for the guard.
C38_Witness ==
    /\ \E i, j \in Handed :
          /\ i < j
          /\ eng_log[i].caller # eng_log[j].caller
          /\ eng_log[j].state = "Break"
          /\ \E k \in DOMAIN eng_log :
                /\ k > j
                /\ eng_log[k].state = "Exhausted"
                /\ eng_log[k].caller # eng_log[j].caller

\* C39: is_exhausted() is true exactly when the next next_work() would
\* return Exhausted; it becomes true in the step in which next_work()
\* returns Break, in no other, and stays true.
C39_ExhaustedIffNoWork ==
    /\ [](\A e \in Engines :
             is_exhausted(engines[e])
                 <=> next_work(engines[e]).state = "Exhausted")
    /\ [][\A e \in Engines :
             /\ is_exhausted(engines[e]) => is_exhausted(engines'[e])
             /\ (~is_exhausted(engines[e]) /\ is_exhausted(engines'[e]))
                    <=> /\ Len(eng_log') = Len(eng_log) + 1
                        /\ eng_log'[Len(eng_log')].engine = e
                        /\ eng_log'[Len(eng_log')].state = "Break"]_vars

\* A TestWorkEngine said it was not exhausted, returned Continue and then
\* Break, and said it was exhausted.
C39_Witness ==
    /\ engines[TestedEngine].kind = "test"
    /\ \E i \in DOMAIN eng_log :
          /\ i + 3 \in DOMAIN eng_log
          /\ eng_log[i].op = "is_exhausted" /\ eng_log[i].state = "false"
          /\ eng_log[i + 1].state = "Continue"
          /\ eng_log[i + 2].state = "Break"
          /\ eng_log[i + 3].op = "is_exhausted"
          /\ eng_log[i + 3].state = "true"

\* C40: add_problem returns true exactly when its key is not registered,
\* registers the problem then and never changes an entry there is;
\* add_solution for a key that is not registered changes nothing;
\* check_everything_solved returns true exactly when every registered
\* problem has received a solution with its key.
C40_RegistryPairsByKey ==
    [][/\ reg_last'.op = "add_problem" =>
            /\ reg_last'.result = (reg_last'.key[1] \notin DOMAIN reg_map)
            /\ DOMAIN reg_map' = DOMAIN reg_map \cup {reg_last'.key[1]}
            /\ \A k \in DOMAIN reg_map : reg_map'[k] = reg_map[k]
       /\ (reg_last'.op = "add_solution"
              /\ reg_last'.key[1] \notin DOMAIN reg_map)
            => reg_map' = reg_map
       /\ reg_last'.op = "check_everything_solved" =>
            reg_last'.result = (DOMAIN reg_map \subseteq reg_received)]_vars

\* A problem that was solved has been added again, which returned false
\* and left it solved, beside a second solved problem.
C40_Witness ==
    /\ reg_last.op = "add_problem"
    /\ reg_last.result = FALSE
    /\ reg_map[reg_last.key[1]].solved
    /\ Cardinality(DOMAIN reg_map) >= 2
    /\ check_everything_solved(reg_map)

====
